---- MODULE Spec2Model ----
(***************************************************************************)
(* The retrieval core of the Teradata lineage analyzer:                    *)
(*   src/src/rag_pipeline.py     SimpleEmbedding, LineageRAGPipeline       *)
(*   src/src/lineage_analyzer.py LineageAnalyzer._find_relevant_code       *)
(*                                                                         *)
(* A Python str is a sequence of one-character strings, so that lower(),   *)
(* upper(), split() and the substring test `in` are computed, not assumed. *)
(* A Python dict is a function on its key set.                             *)
(*                                                                         *)
(* Numbers.  np.log is tabulated in fixed point (10 * ln, rounded).  An    *)
(* embedding is kept as the integer direction `num` together with its      *)
(* squared length `norm2`: the float vector of the code is num/sqrt(norm2) *)
(* when norm2 > 0 and the zero vector when norm2 = 0 (embed skips the      *)
(* normalisation then).  tf = count/len(words) scales every component of a *)
(* vector by the same 1/len(words), which the normalisation cancels, so    *)
(* num holds count * idf.  Dot products and L2 distances of such vectors   *)
(* are compared exactly, by cross-multiplication of squares.  The rounding  *)
(* of the logarithms keeps equal weights equal, so the ties of the code    *)
(* are ties here; two distances that differ by less than the rounding may  *)
(* compare differently than in floating point.                             *)
(*                                                                         *)
(* faiss.IndexFlatL2 is a library outside src/: its search is the exact    *)
(* squared-L2 ranking with ties in insertion order.                        *)
(***************************************************************************)
EXTENDS Integers, Sequences, FiniteSets, TLC

(***************************************************************************)
(* Bounds of the model.                                                    *)
(***************************************************************************)
\* index_documents calls on the one pipeline
MaxRuns == 2
\* largest top_k a direct retrieve call is given (0..MaxTopK)
MaxTopK == 2

\* f itself, held as a table of its values rather than as a rule that is
\* re-evaluated at each application
Tabulated(f) == f @@ <<>>

(***************************************************************************)
(* Python str operations.                                                  *)
(***************************************************************************)
LowerLetters ==
    <<"a", "b", "c", "d", "e", "f", "g", "h", "i", "j", "k", "l", "m",
      "n", "o", "p", "q", "r", "s", "t", "u", "v", "w", "x", "y", "z">>

UpperLetters ==
    <<"A", "B", "C", "D", "E", "F", "G", "H", "I", "J", "K", "L", "M",
      "N", "O", "P", "Q", "R", "S", "T", "U", "V", "W", "X", "Y", "Z">>

Digits == <<"0", "1", "2", "3", "4", "5", "6", "7", "8", "9">>

Whitespace == {" ", "\n", "\t"}

Range(s) == {s[i] : i \in DOMAIN s}

Alphabet ==
    Range(LowerLetters) \cup Range(UpperLetters) \cup Range(Digits)
        \cup Whitespace \cup {":", ",", ".", ";", "(", ")", "_", "="}

UpperChar ==
    [c \in Alphabet |->
        IF \E i \in DOMAIN LowerLetters : LowerLetters[i] = c
        THEN UpperLetters[CHOOSE i \in DOMAIN LowerLetters : LowerLetters[i] = c]
        ELSE c]

LowerChar ==
    [c \in Alphabet |->
        IF \E i \in DOMAIN UpperLetters : UpperLetters[i] = c
        THEN LowerLetters[CHOOSE i \in DOMAIN UpperLetters : UpperLetters[i] = c]
        ELSE c]

\* str.upper()
upper(s) == [i \in DOMAIN s |-> UpperChar[s[i]]]

\* str.lower()
lower(s) == [i \in DOMAIN s |-> LowerChar[s[i]]]

\* str.split(): the maximal runs of non-whitespace characters, in order
split(s) ==
    LET starts == {i \in DOMAIN s :
                      s[i] \notin Whitespace /\ (i = 1 \/ s[i - 1] \in Whitespace)}
        start(k) == CHOOSE i \in starts : Cardinality({j \in starts : j < i}) = k - 1
        end(i) == CHOOSE e \in i..Len(s) :
                      /\ \A j \in i..e : s[j] \notin Whitespace
                      /\ e = Len(s) \/ s[e + 1] \in Whitespace
    IN  [k \in 1..Cardinality(starts) |-> SubSeq(s, start(k), end(start(k)))]

\* `needle in hay` on str: needle occurs as a contiguous substring
Contains(needle, hay) ==
    \E i \in 0..(Len(hay) - Len(needle)) :
        \A j \in 1..Len(needle) : hay[i + j] = needle[j]

\* sep.join(items)
RECURSIVE join(_, _)
join(sep, items) ==
    IF items = <<>> THEN <<>>
    ELSE IF Len(items) = 1 THEN items[1]
    ELSE items[1] \o sep \o join(sep, Tail(items))

\* str(n) for an int n >= 0
RECURSIVE IntToStr(_)
IntToStr(n) ==
    IF n < 10 THEN <<Digits[n + 1]>>
    ELSE IntToStr(n \div 10) \o <<Digits[(n % 10) + 1]>>

\* s[:n]
Prefix(s, n) == SubSeq(s, 1, IF Len(s) < n THEN Len(s) ELSE n)

(***************************************************************************)
(* Parsed files handed to index_documents (the parser's output for four    *)
(* small files), and the corpora built from them.                          *)
(***************************************************************************)
\* a.sql: "INSERT INTO T1 SELECT C1 FROM T2;"
FileA ==
    [file_path |-> <<"a", ".", "s", "q", "l">>,
     file_type |-> "sql",
     content |-> <<"I", "N", "S", "E", "R", "T", " ", "I", "N", "T", "O", " ",
                   "T", "1", " ", "S", "E", "L", "E", "C", "T", " ", "C", "1",
                   " ", "F", "R", "O", "M", " ", "T", "2", ";">>,
     sql_statements |->
        <<[statement_id |-> 0,
           type |-> <<"I", "N", "S", "E", "R", "T">>,
           content |-> <<"I", "N", "S", "E", "R", "T", " ", "I", "N", "T", "O",
                         " ", "T", "1", " ", "S", "E", "L", "E", "C", "T", " ",
                         "C", "1", " ", "F", "R", "O", "M", " ", "T", "2">>,
           tables |-> << <<"T", "1">>, <<"T", "2">> >>]>>,
     tables_referenced |-> << <<"T", "1">>, <<"T", "2">> >>]

\* b.ksh: "echo load t10" (no SQL block, so no statement; "t10" holds "t1")
FileB ==
    [file_path |-> <<"b", ".", "k", "s", "h">>,
     file_type |-> "ksh",
     content |-> <<"e", "c", "h", "o", " ", "l", "o", "a", "d", " ", "t", "1", "0">>,
     sql_statements |-> <<>>,
     tables_referenced |-> <<>>]

\* c.bteq: "create table t1 (c1 int);"
FileC ==
    [file_path |-> <<"c", ".", "b", "t", "e", "q">>,
     file_type |-> "bteq",
     content |-> <<"c", "r", "e", "a", "t", "e", " ", "t", "a", "b", "l", "e",
                   " ", "t", "1", " ", "(", "c", "1", " ", "i", "n", "t", ")", ";">>,
     sql_statements |->
        <<[statement_id |-> 0,
           type |-> <<"C", "R", "E", "A", "T", "E">>,
           content |-> <<"c", "r", "e", "a", "t", "e", " ", "t", "a", "b", "l",
                         "e", " ", "t", "1", " ", "(", "c", "1", " ", "i", "n",
                         "t", ")">>,
           tables |-> << <<"T", "1">> >>]>>,
     tables_referenced |-> << <<"T", "1">> >>]

\* d.sql: "SELECT C1 FROM T2;\nDELETE FROM T2 WHERE C1 = 0;"
FileD ==
    [file_path |-> <<"d", ".", "s", "q", "l">>,
     file_type |-> "sql",
     content |-> <<"S", "E", "L", "E", "C", "T", " ", "C", "1", " ", "F", "R",
                   "O", "M", " ", "T", "2", ";", "\n", "D", "E", "L", "E",
                   "T", "E", " ", "F", "R", "O", "M", " ", "T", "2", " ", "W",
                   "H", "E", "R", "E", " ", "C", "1", " ", "=", " ", "0", ";">>,
     sql_statements |->
        <<[statement_id |-> 0,
           type |-> <<"S", "E", "L", "E", "C", "T">>,
           content |-> <<"S", "E", "L", "E", "C", "T", " ", "C", "1", " ", "F", "R",
                         "O", "M", " ", "T", "2">>,
           tables |-> << <<"T", "2">> >>],
          [statement_id |-> 1,
           type |-> <<"D", "E", "L", "E", "T", "E">>,
           content |-> <<"D", "E", "L", "E", "T", "E", " ", "F", "R", "O", "M", " ",
                         "T", "2", " ", "W", "H", "E", "R", "E", " ", "C", "1", " ",
                         "=", " ", "0">>,
           tables |-> << <<"T", "2">> >>]>>,
     tables_referenced |-> << <<"T", "2">> >>]

\* the parsed_files arguments of index_documents
Corpora == { <<>>, <<FileB>>, <<FileB, FileA>> }

\* e.sql: "todo", no statement
FileE ==
    [file_path |-> <<"e", ".", "s", "q", "l">>,
     file_type |-> "sql",
     content |-> <<"t", "o", "d", "o">>,
     sql_statements |-> <<>>,
     tables_referenced |-> <<>>]

\* f.sql: "SELECT C1 FROM T2; x; SELECT C2 FROM T2;", whose second piece is too
\* short to be a statement
FileF ==
    [file_path |-> <<"f", ".", "s", "q", "l">>,
     file_type |-> "sql",
     content |-> <<"S", "E", "L", "E", "C", "T", " ", "C", "1", " ", "F", "R",
                 "O", "M", " ", "T", "2", ";", " ", "x", ";", " ", "S", "E",
                 "L", "E", "C", "T", " ", "C", "2", " ", "F", "R", "O", "M",
                 " ", "T", "2", ";">>,
     sql_statements |->
        <<[statement_id |-> 0,
           type |-> <<"S", "E", "L", "E", "C", "T">>,
           content |-> <<"S", "E", "L", "E", "C", "T", " ", "C", "1", " ",
                       "F", "R", "O", "M", " ", "T", "2">>,
           tables |-> << <<"T", "2">> >>],
          [statement_id |-> 2,
           type |-> <<"S", "E", "L", "E", "C", "T">>,
           content |-> <<"S", "E", "L", "E", "C", "T", " ", "C", "2", " ",
                       "F", "R", "O", "M", " ", "T", "2">>,
           tables |-> << <<"T", "2">> >>]>>,
     tables_referenced |-> << <<"T", "2">> >>]

\* a file whose path reads like a chunk id of f.sql: "SELECT C1 FROM T2;"
FileG ==
    [file_path |-> <<"f", ".", "s", "q", "l", ":", "s", "t", "m", "t", "_",
                   "0">>,
     file_type |-> "sql",
     content |-> <<"S", "E", "L", "E", "C", "T", " ", "C", "1", " ", "F", "R",
                 "O", "M", " ", "T", "2", ";">>,
     sql_statements |->
        <<[statement_id |-> 0,
           type |-> <<"S", "E", "L", "E", "C", "T">>,
           content |-> <<"S", "E", "L", "E", "C", "T", " ", "C", "1", " ",
                       "F", "R", "O", "M", " ", "T", "2">>,
           tables |-> << <<"T", "2">> >>]>>,
     tables_referenced |-> << <<"T", "2">> >>]

\* the files the chunker is applied to
ChunkFiles == {FileB, FileC, FileE, FileF, FileG}

\* parsed_files of up to two files, a file given twice included
ChunkCorpora ==
    {<<>>} \cup {<<pf>> : pf \in ChunkFiles}
           \cup {<<pf, other>> : pf \in ChunkFiles, other \in ChunkFiles}

\* a corpus of seven chunks, more than one retrieve call of the fan-out
\* returns.  It is indexed only where the search order is fixed by the
\* distances (with np.argsort's free order of ties its chunks alone allow
\* 5040 orderings per query).
LargeCorpora(faiss_available) ==
    IF faiss_available THEN { <<FileA, FileC, FileD>> } ELSE {}

\* str(file_type)
FileTypeStr(t) ==
    CASE t = "sql" -> <<"s", "q", "l">>
      [] t = "ksh" -> <<"k", "s", "h">>
      [] t = "bteq" -> <<"b", "t", "e", "q">>

(***************************************************************************)
(* LineageRAGPipeline._create_chunks                                       *)
(***************************************************************************)
\* content[:1000]
ContentPrefixLen == 1000

MetadataChunk(pf) ==
    [chunk_id |-> pf.file_path \o <<":", "m", "e", "t", "a", "d", "a", "t", "a">>,
     content |->
        <<"\n", "F", "i", "l", "e", ":", " ">> \o pf.file_path
        \o <<"\n", "T", "y", "p", "e", ":", " ">> \o FileTypeStr(pf.file_type)
        \o <<"\n", "T", "a", "b", "l", "e", "s", " ", "R", "e", "f", "e", "r",
             "e", "n", "c", "e", "d", ":", " ">>
        \o join(<<",", " ">>, pf.tables_referenced)
        \o <<"\n">>
        \o <<"\n">> \o Prefix(pf.content, ContentPrefixLen),
     metadata |-> [file_path |-> pf.file_path, file_type |-> pf.file_type,
                   chunk_type |-> "metadata", tables |-> pf.tables_referenced]]

\* a statement chunk named after the type of its statement
StatementChunkByType(pf, stmt) ==
    [chunk_id |-> pf.file_path \o <<":", "s", "t", "m", "t", "_">> \o stmt.type,
     content |-> stmt.content,
     metadata |-> [file_path |-> pf.file_path, file_type |-> pf.file_type,
                   chunk_type |-> "statement", statement_type |-> stmt.type,
                   tables |-> stmt.tables]]

StatementChunk(pf, stmt) ==
    [chunk_id |-> pf.file_path \o <<":", "s", "t", "m", "t", "_">>
                    \o IntToStr(stmt.statement_id),
     content |->
        <<"\n", "F", "i", "l", "e", ":", " ">> \o pf.file_path
        \o <<"\n", "S", "t", "a", "t", "e", "m", "e", "n", "t", " ", "T", "y",
             "p", "e", ":", " ">> \o stmt.type
        \o <<"\n", "T", "a", "b", "l", "e", "s", ":", " ">>
        \o join(<<",", " ">>, stmt.tables)
        \o <<"\n", "S", "Q", "L", ":", "\n">> \o stmt.content
        \o <<"\n">>,
     metadata |-> [file_path |-> pf.file_path, file_type |-> pf.file_type,
                   chunk_type |-> "statement", statement_type |-> stmt.type,
                   tables |-> stmt.tables]]

\* a chunker that describes only files in which it found a statement
_create_chunksOfStatements(pf) ==
    IF pf.sql_statements = <<>> THEN <<>>
    ELSE <<MetadataChunk(pf)>>
            \o [i \in DOMAIN pf.sql_statements |->
                    StatementChunk(pf, pf.sql_statements[i])]

_create_chunks(pf) ==
    <<MetadataChunk(pf)>>
        \o [i \in DOMAIN pf.sql_statements |-> StatementChunk(pf, pf.sql_statements[i])]

\* all_chunks of index_documents: the files' chunks, in file order
RECURSIVE AllChunks(_)
AllChunks(parsed_files) ==
    IF parsed_files = <<>> THEN <<>>
    ELSE _create_chunks(Head(parsed_files)) \o AllChunks(Tail(parsed_files))

(***************************************************************************)
(* TeradataCodeParser: the regular expressions of PATTERNS that name a     *)
(* table, matched character by character, and the parsing of a SQL file.   *)
(* Each expression is a list of alternatives in the order the regex engine *)
(* tries them, every one followed by \s+ and the group (\w+\.\w+|\w+).     *)
(***************************************************************************)
\* the characters \w matches
WordChars ==
    Range(LowerLetters) \cup Range(UpperLetters) \cup Range(Digits) \cup {"_"}

Lit(text) == [k |-> "lit", t |-> text]
Sp1 == [k |-> "sp1", t |-> <<>>]
Sp0 == [k |-> "sp0", t |-> <<>>]

\* the position after the longest run of characters of cls that starts at i
RunEnd(s, i, cls) ==
    CHOOSE e \in i..(Len(s) + 1) :
        /\ \A j \in i..(e - 1) : s[j] \in cls
        /\ e = Len(s) + 1 \/ s[e] \notin cls

\* the position after a match of the items at i (re.IGNORECASE), 0 if none
RECURSIVE MatchItems(_, _, _)
MatchItems(items, s, i) ==
    IF items = <<>> THEN i
    ELSE LET item == Head(items)
             n == Len(item.t)
             spaces == RunEnd(s, i, Whitespace)
         IN  IF item.k = "lit"
             THEN IF i + n - 1 <= Len(s) /\ upper(SubSeq(s, i, i + n - 1)) = item.t
                  THEN MatchItems(Tail(items), s, i + n)
                  ELSE 0
             ELSE IF item.k = "sp1" /\ spaces = i THEN 0
             ELSE MatchItems(Tail(items), s, spaces)

\* the position after a match of (\w+\.\w+|\w+) at i, 0 if none
MatchGroup(s, i) ==
    LET word == RunEnd(s, i, WordChars)
        second == RunEnd(s, word + 1, WordChars)
    IN  IF i > Len(s) \/ word = i THEN 0
        ELSE IF word < Len(s) /\ s[word] = "." /\ second > word + 1 THEN second
        ELSE word

\* the match of the pattern that starts at i, as <<start of the group, end>>;
\* <<>> if there is none
MatchAt(pattern, s, i) ==
    LET group(v) == LET p == MatchItems(pattern[v] \o <<Sp1>>, s, i)
                    IN  IF p = 0 THEN <<>>
                        ELSE IF MatchGroup(s, p) = 0 THEN <<>>
                        ELSE <<p, MatchGroup(s, p)>>
        matching == {v \in DOMAIN pattern : group(v) # <<>>}
    IN  IF matching = {} THEN <<>>
        ELSE group(CHOOSE v \in matching : \A u \in matching : v <= u)

\* group(1) of the matches pattern.finditer(s) yields from position `from` on
RECURSIVE FindIter(_, _, _)
FindIter(pattern, s, from) ==
    LET starts == {i \in from..Len(s) : MatchAt(pattern, s, i) # <<>>}
    IN  IF starts = {} THEN <<>>
        ELSE LET m == MatchAt(pattern, s, CHOOSE i \in starts : \A j \in starts : i <= j)
             IN  <<SubSeq(s, m[1], m[2] - 1)>> \o FindIter(pattern, s, m[2])

\* PATTERNS, without bteq_logon and column_definition which _extract_tables
\* skips
TablePatterns ==
    << \* create_table
       << <<Lit(<<"C", "R", "E", "A", "T", "E">>), Sp1,
            Lit(<<"M", "U", "L", "T", "I", "S", "E", "T">>), Sp1,
            Lit(<<"T", "A", "B", "L", "E">>)>>,
          <<Lit(<<"C", "R", "E", "A", "T", "E">>), Sp1,
            Lit(<<"S", "E", "T">>), Sp1, Lit(<<"T", "A", "B", "L", "E">>)>>,
          <<Lit(<<"C", "R", "E", "A", "T", "E">>), Sp1,
            Lit(<<"T", "A", "B", "L", "E">>)>> >>,
       \* insert_into
       << <<Lit(<<"I", "N", "S", "E", "R", "T">>), Sp1, Lit(<<"I", "N", "T", "O">>)>> >>,
       \* select_from
       << <<Lit(<<"F", "R", "O", "M">>)>> >>,
       \* join
       << <<Lit(<<"I", "N", "N", "E", "R">>), Sp0, Lit(<<"J", "O", "I", "N">>)>>,
          <<Lit(<<"L", "E", "F", "T">>), Sp0, Lit(<<"J", "O", "I", "N">>)>>,
          <<Lit(<<"R", "I", "G", "H", "T">>), Sp0, Lit(<<"J", "O", "I", "N">>)>>,
          <<Lit(<<"F", "U", "L", "L">>), Sp0, Lit(<<"J", "O", "I", "N">>)>>,
          <<Lit(<<"C", "R", "O", "S", "S">>), Sp0, Lit(<<"J", "O", "I", "N">>)>>,
          <<Sp0, Lit(<<"J", "O", "I", "N">>)>> >>,
       \* update
       << <<Lit(<<"U", "P", "D", "A", "T", "E">>)>> >>,
       \* merge_into
       << <<Lit(<<"M", "E", "R", "G", "E">>), Sp1, Lit(<<"I", "N", "T", "O">>)>> >> >>

\* the characters of table names in code point order, for sorted()
CodeOrder == <<".">> \o Digits \o UpperLetters \o <<"_">> \o LowerLetters

CodePoint(c) == CHOOSE n \in DOMAIN CodeOrder : CodeOrder[n] = c

\* a < b on str
StrLess(a, b) ==
    \E n \in 1..(Len(a) + 1) :
        /\ n <= Len(b)
        /\ \A j \in 1..(n - 1) : a[j] = b[j]
        /\ n = Len(a) + 1 \/ CodePoint(a[n]) < CodePoint(b[n])

\* sorted(list(names)) for a set of str
Sorted(names) ==
    [k \in 1..Cardinality(names) |->
        CHOOSE a \in names : Cardinality({b \in names : StrLess(b, a)}) = k - 1]

\* every group(1) the patterns find in content, in the order found
TableMatches(content) ==
    LET found == [p \in DOMAIN TablePatterns |-> FindIter(TablePatterns[p], content, 1)]
    IN  found[1] \o found[2] \o found[3] \o found[4] \o found[5] \o found[6]

\* an _extract_tables that hands on each match as it is written
_extract_tablesAsWritten(content) == TableMatches(content)

\* _extract_tables: the matches, upper-cased, as a set, sorted.  (strip() and
\* the removal of quotes change nothing in a match of \w+\.\w+|\w+.)
_extract_tables(content) ==
    Sorted({upper(name) : name \in Range(TableMatches(content))})

\* str.strip()
strip(s) ==
    LET kept == {i \in DOMAIN s : s[i] \notin Whitespace}
    IN  IF kept = {} THEN <<>>
        ELSE SubSeq(s, CHOOSE i \in kept : \A j \in kept : i <= j,
                       CHOOSE i \in kept : \A j \in kept : j <= i)

\* s.split(sep) for a one-character sep: the pieces between the separators
SplitOn(s, sep) ==
    LET at == {i \in DOMAIN s : s[i] = sep}
        nth(k) == IF k = 0 THEN 0
                  ELSE IF k > Cardinality(at) THEN Len(s) + 1
                  ELSE CHOOSE i \in at : Cardinality({j \in at : j < i}) = k - 1
    IN  [k \in 1..(Cardinality(at) + 1) |-> SubSeq(s, nth(k - 1) + 1, nth(k) - 1)]

\* s.startswith(prefix)
StartsWith(s, prefix) ==
    Len(prefix) <= Len(s) /\ SubSeq(s, 1, Len(prefix)) = prefix

StatementTypes ==
    << <<"S", "E", "L", "E", "C", "T">>, <<"I", "N", "S", "E", "R", "T">>,
       <<"U", "P", "D", "A", "T", "E">>, <<"D", "E", "L", "E", "T", "E">>,
       <<"C", "R", "E", "A", "T", "E">>, <<"M", "E", "R", "G", "E">>,
       <<"D", "R", "O", "P">> >>

_get_statement_type(statement) ==
    LET stmt_upper == strip(upper(statement))
        hits == {n \in DOMAIN StatementTypes : StartsWith(stmt_upper, StatementTypes[n])}
    IN  IF hits = {} THEN <<"O", "T", "H", "E", "R">>
        ELSE StatementTypes[CHOOSE n \in hits : \A m \in hits : n <= m]

\* pieces shorter than this are not statements
MinStatementLen == 10

\* _extract_sql_statements: the pieces of content.split(';') that are long
\* enough, each with its position among all the pieces as statement_id
_extract_sql_statements(content) ==
    LET raw_statements == SplitOn(content, ";")
        kept == {i \in DOMAIN raw_statements :
                    Len(strip(raw_statements[i])) >= MinStatementLen}
        nth(k) == CHOOSE i \in kept : Cardinality({j \in kept : j < i}) = k - 1
    IN  [k \in 1..Cardinality(kept) |->
            LET stmt == strip(raw_statements[nth(k)])
            IN  [statement_id |-> nth(k) - 1,
                 type |-> _get_statement_type(stmt),
                 content |-> stmt,
                 tables |-> _extract_tables(stmt)]]

\* _parse_sql_file, with file_path already relative to the repository
_parse_sql_file(file_path, content) ==
    [file_path |-> file_path,
     file_type |-> "sql",
     content |-> content,
     sql_statements |-> _extract_sql_statements(content),
     tables_referenced |-> _extract_tables(content)]

(***************************************************************************)
(* SimpleEmbedding                                                         *)
(***************************************************************************)
\* round(10 * ln(doc_count / (1 + count))): row doc_count, column count
LogTimes10 ==
    << <<-7>>,
       <<0, -4>>,
       <<4, 0, -3>>,
       <<7, 3, 0, -2>>,
       <<9, 5, 2, 0, -2>>,
       <<11, 7, 4, 2, 0, -2>>,
       <<13, 8, 6, 3, 2, 0, -1>>,
       <<14, 10, 7, 5, 3, 1, 0, -1>> >>

\* np.log(doc_count / (1 + count)), in tenths
np_log(doc_count, count) == LogTimes10[doc_count][count]

\* a vocabulary loop that goes through the documents from the last to the
\* first
FitVocabLastFirst(vocab, corpus) ==
    LET documents == [i \in DOMAIN corpus |-> corpus[Len(corpus) + 1 - i]] IN
    LET words == Tabulated([i \in DOMAIN documents |-> split(lower(documents[i]))])
        wordset == Tabulated([i \in DOMAIN documents |-> Range(words[i])])
        fresh == UNION {wordset[i] : i \in DOMAIN documents} \ DOMAIN vocab
        first == Tabulated(
            [w \in fresh |->
                LET doc == CHOOSE i \in DOMAIN documents :
                               /\ w \in wordset[i]
                               /\ \A j \in 1..(i - 1) : w \notin wordset[j]
                    at == {p \in DOMAIN words[doc] : words[doc][p] = w}
                IN  <<doc, CHOOSE p \in at : \A r \in at : p <= r>>])
        earlier(w) == {v \in fresh :
                          \/ first[v][1] < first[w][1]
                          \/ first[v][1] = first[w][1] /\ first[v][2] < first[w][2]}
    IN  Tabulated([w \in (DOMAIN vocab) \cup fresh |->
                      IF w \in DOMAIN vocab THEN vocab[w]
                      ELSE Cardinality(DOMAIN vocab) + Cardinality(earlier(w))])

\* the vocabulary loop of fit, starting from the embedder's current vocab: a
\* word not yet in vocab gets index len(vocab), so the new words are numbered
\* after the old ones in the order of their first occurrence (document, then
\* position in the document)
FitVocab(vocab, documents) ==
    LET words == Tabulated([i \in DOMAIN documents |-> split(lower(documents[i]))])
        wordset == Tabulated([i \in DOMAIN documents |-> Range(words[i])])
        fresh == UNION {wordset[i] : i \in DOMAIN documents} \ DOMAIN vocab
        first == Tabulated(
            [w \in fresh |->
                LET doc == CHOOSE i \in DOMAIN documents :
                               /\ w \in wordset[i]
                               /\ \A j \in 1..(i - 1) : w \notin wordset[j]
                    at == {p \in DOMAIN words[doc] : words[doc][p] = w}
                IN  <<doc, CHOOSE p \in at : \A r \in at : p <= r>>])
        earlier(w) == {v \in fresh :
                          \/ first[v][1] < first[w][1]
                          \/ first[v][1] = first[w][1] /\ first[v][2] < first[w][2]}
    IN  Tabulated([w \in (DOMAIN vocab) \cup fresh |->
                      IF w \in DOMAIN vocab THEN vocab[w]
                      ELSE Cardinality(DOMAIN vocab) + Cardinality(earlier(w))])

\* word_doc_count of fit: for each word, the number of documents holding it
WordDocCount(documents) ==
    LET words == [i \in DOMAIN documents |-> Range(split(lower(documents[i])))]
    IN  [w \in UNION {words[i] : i \in DOMAIN documents} |->
            Cardinality({i \in DOMAIN documents : w \in words[i]})]

\* the IDF loop of fit: every word of the documents is (re)assigned
FitIdf(idf, documents) ==
    LET word_doc_count == WordDocCount(documents)
    IN  [w \in (DOMAIN idf) \cup (DOMAIN word_doc_count) |->
            IF w \in DOMAIN word_doc_count
            THEN np_log(Len(documents), word_doc_count[w])
            ELSE idf[w]]

\* SimpleEmbedding.fit, as the embedder it leaves behind
fit(embedder, documents) ==
    [vocab |-> FitVocab(embedder.vocab, documents),
     idf |-> FitIdf(embedder.idf, documents)]

\* the sum of v[lo..hi]
RECURSIVE SumRange(_, _, _)
SumRange(v, lo, hi) ==
    IF lo > hi THEN 0
    ELSE IF lo = hi THEN v[lo]
    ELSE SumRange(v, lo, (lo + hi) \div 2) + SumRange(v, (lo + hi) \div 2 + 1, hi)

\* np.linalg.norm(v) ** 2
SumSquares(v) == SumRange([i \in DOMAIN v |-> v[i] * v[i]], 1, Len(v))

\* an embed whose vector gets one more component per word the vocabulary
\* does not hold
embedGrowing(embedder, text) ==
    LET unknown == Range(split(lower(text))) \ DOMAIN embedder.vocab
        size == Cardinality(DOMAIN embedder.vocab) + Cardinality(unknown)
    IN  [num |-> [i \in 1..size |-> 0], norm2 |-> 0]

\* SimpleEmbedding.embed
embed(embedder, text) ==
    LET words == split(lower(text))
        word_count == [w \in Range(words) |->
                          Cardinality({i \in DOMAIN words : words[i] = w})]
        known == {w \in DOMAIN word_count : w \in DOMAIN embedder.vocab}
        weight(w) == word_count[w]
                        * (IF w \in DOMAIN embedder.idf THEN embedder.idf[w] ELSE 0)
        num == Tabulated(
                  [i \in 1..Cardinality(DOMAIN embedder.vocab) |->
                      IF \E w \in known : embedder.vocab[w] = i - 1
                      THEN weight(CHOOSE w \in known : embedder.vocab[w] = i - 1)
                      ELSE 0])
    IN  [num |-> num, norm2 |-> SumSquares(num)]

\* an embed that gives the words it does not know the next indices
EmbedEffectAddsWords(embedder, text) ==
    [embedder EXCEPT !.vocab = FitVocab(@, <<text>>)]

\* an embed that fits the embedder to the text it is given
EmbedEffectRefits(embedder, text) == fit(embedder, <<text>>)

\* self.embedder after embed(text): lines 70-92 assign to no attribute
EmbedEffect(embedder, text) == embedder

(***************************************************************************)
(* Comparing similarities and distances of embeddings.                     *)
(***************************************************************************)
Cmp(x, y) == IF x < y THEN -1 ELSE IF x > y THEN 1 ELSE 0

DotNum(u, v) == SumRange([i \in DOMAIN u |-> u[i] * v[i]], 1, Len(u))

\* np.dot(q, e) of the float vectors is a / sqrt(b) / sqrt(q.norm2), or 0 when
\* q or e is the zero vector; the factor 1/sqrt(q.norm2) is common to all
\* chunks compared against one query
Sim(q, e) ==
    [a |-> IF q.norm2 = 0 \/ e.norm2 = 0 THEN 0 ELSE DotNum(q.num, e.num),
     b |-> IF e.norm2 = 0 THEN 1 ELSE e.norm2]

\* -1, 0, 1 as similarity s1 is less than, equal to, greater than s2
CmpSim(s1, s2) ==
    IF s1.a >= 0 /\ s2.a >= 0 THEN Cmp(s1.a * s1.a * s2.b, s2.a * s2.a * s1.b)
    ELSE IF s1.a < 0 /\ s2.a < 0 THEN Cmp(s2.a * s2.a * s1.b, s1.a * s1.a * s2.b)
    ELSE Cmp(s1.a, s2.a)

\* -1, 0, 1 as the similarity a / sqrt(b) / sqrt(q.norm2) is below, at, above 1/2
CmpSimHalf(q, s) ==
    IF s.a <= 0 THEN -1 ELSE Cmp(4 * s.a * s.a, q.norm2 * s.b)

\* -1, 0, 1 as the squared L2 distance |q - e1|^2 is less than, equal to,
\* greater than |q - e2|^2, where |q - e|^2 = |q|^2 + |e|^2 - 2 q.e and
\* |e|^2 is 1 for a normalised vector and 0 for the zero vector
CmpDist(q, e1, e2) ==
    IF (e1.norm2 = 0) = (e2.norm2 = 0) THEN CmpSim(Sim(q, e2), Sim(q, e1))
    ELSE IF e1.norm2 = 0 THEN CmpSimHalf(q, Sim(q, e2))
    ELSE 0 - CmpSimHalf(q, Sim(q, e1))

Min(a, b) == IF a < b THEN a ELSE b

Reverse(s) == [i \in DOMAIN s |-> s[Len(s) + 1 - i]]

(***************************************************************************)
(* faiss.IndexFlatL2: exact search by squared L2 distance.  An index is    *)
(* [d |-> dimension, xb |-> the vectors added, in order].  self.index is   *)
(* None or <<the index>>.                                                  *)
(***************************************************************************)
None == <<>>

\* position (0-based) of vector i in ascending distance to q; vectors at equal
\* distance keep the order in which they were added
FaissRank(xb, q, i) ==
    Cardinality({j \in DOMAIN xb :
        \/ CmpDist(q, xb[j], xb[i]) < 0
        \/ CmpDist(q, xb[j], xb[i]) = 0 /\ j < i})

\* index.search(q, k)[1][0]: the 0-based labels of the k nearest vectors,
\* nearest first, padded with -1 when the index holds fewer than k vectors
FaissSearch(index, q, k) ==
    LET rank == Tabulated([i \in DOMAIN index.xb |-> FaissRank(index.xb, q, i)])
    IN  [p \in 1..k |->
            IF p <= Len(index.xb)
            THEN (CHOOSE i \in DOMAIN index.xb : rank[i] = p - 1) - 1
            ELSE -1]

(***************************************************************************)
(* LineageRAGPipeline.retrieve.  A call returns a list or raises; where    *)
(* the outcome is not fixed by the code, all outcomes are kept.            *)
(***************************************************************************)
Returned(list) == [raised |-> FALSE, result |-> list]
Raised == [raised |-> TRUE, result |-> <<>>]

\* list[idx] with Python's negative indices; the set is empty on IndexError
PyItem(list, idx) ==
    IF idx >= 0 /\ idx < Len(list) THEN {list[idx + 1]}
    ELSE IF idx < 0 /\ 0 - idx <= Len(list) THEN {list[Len(list) + idx + 1]}
    ELSE {}

\* [self.chunks[idx] for idx in indices]
Gather(chunks, indices) ==
    IF \E p \in DOMAIN indices : PyItem(chunks, indices[p]) = {}
    THEN Raised
    ELSE Returned([p \in DOMAIN indices |->
                      CHOOSE c \in PyItem(chunks, indices[p]) : TRUE])

\* lines 258-261: the accelerated path.  index.search asserts k > 0 in the
\* current Python wrapper and returns empty arrays in older ones; it raises
\* when the query's dimension is not the index's.
RetrieveFaiss(self, q, top_k) ==
    LET k == Min(top_k, Len(self.chunks))
    IN  IF Len(q.num) # self.index[1].d THEN {Raised}
        ELSE IF k = 0 THEN {Raised, Returned(<<>>)}
        ELSE {Gather(self.chunks, FaissSearch(self.index[1], q, k))}

\* np.argsort(similarities): the index permutations that put the
\* similarities in ascending order (the default sort kind is not stable, so
\* equal similarities may come out in any order)
Argsort(sims) ==
    {p \in [DOMAIN sims -> DOMAIN sims] :
        /\ \A i, j \in DOMAIN sims : i # j => p[i] # p[j]
        /\ \A i \in 1..(Len(sims) - 1) : CmpSim(sims[p[i]], sims[p[i + 1]]) <= 0}

\* a[-top_k:] for top_k >= 0: -0 is 0, so top_k = 0 selects the whole array
LastK(a, top_k) ==
    IF top_k = 0 \/ top_k >= Len(a) THEN a
    ELSE SubSeq(a, Len(a) - top_k + 1, Len(a))

\* lines 263-271: the brute-force path.  np.dot raises on vectors of
\* different lengths.
RetrieveBrute(self, q, top_k) ==
    IF \E i \in DOMAIN self.chunks : Len(self.chunks[i].embedding.num) # Len(q.num)
    THEN {Raised}
    ELSE LET similarities == Tabulated([i \in DOMAIN self.chunks |->
                                           Sim(q, self.chunks[i].embedding)])
         IN  {Returned([p \in DOMAIN top |-> self.chunks[top[p]]]) :
                 top \in {Reverse(LastK(a, top_k)) : a \in Argsort(similarities)}}

\* a retrieve that ranks the corpus and returns all of it, whatever top_k
retrieveUncapped(self, query, top_k) ==
    IF self.chunks = <<>> THEN {Returned(<<>>)}
    ELSE IF self.FAISS_AVAILABLE /\ self.index # None
         THEN RetrieveFaiss(self, embed(self.embedder, query), Len(self.chunks))
         ELSE RetrieveBrute(self, embed(self.embedder, query), Len(self.chunks))

\* a retrieve without the early return of lines 251-252
retrieveUnguarded(self, query, top_k) ==
    IF self.FAISS_AVAILABLE /\ self.index # None
    THEN RetrieveFaiss(self, embed(self.embedder, query), top_k)
    ELSE RetrieveBrute(self, embed(self.embedder, query), top_k)

\* the outcomes of retrieve(query, top_k) on pipeline self
retrieve(self, query, top_k) ==
    IF self.chunks = <<>> THEN {Returned(<<>>)}
    ELSE IF self.FAISS_AVAILABLE /\ self.index # None
         THEN RetrieveFaiss(self, embed(self.embedder, query), top_k)
         ELSE RetrieveBrute(self, embed(self.embedder, query), top_k)

(***************************************************************************)
(* LineageAnalyzer._find_relevant_code                                     *)
(***************************************************************************)
\* top_k=5 of the fan-out's retrieve calls
FanOutTopK == 5

\* lines 61-67
FanOutQueries(table_name, column_name) ==
    << table_name \o <<" ">> \o column_name,
       <<"I", "N", "S", "E", "R", "T", " ", "I", "N", "T", "O", " ">> \o table_name,
       <<"C", "R", "E", "A", "T", "E", " ", "T", "A", "B", "L", "E", " ">> \o table_name,
       <<"S", "E", "L", "E", "C", "T", " ">> \o column_name,
       table_name >>

\* a test that forgets the table name
KeepsUnmentioned(acc, chunk, table_name) ==
    chunk.chunk_id \notin acc.seen_ids

\* a test that forgets seen_ids
KeepsSeen(acc, chunk, table_name) ==
    Contains(upper(table_name), upper(chunk.content))

\* lines 76-78: the test a retrieved chunk passes to be kept
Keeps(acc, chunk, table_name) ==
    /\ chunk.chunk_id \notin acc.seen_ids
    /\ Contains(upper(table_name), upper(chunk.content))

\* lines 75-80: the inner loop over one query's chunks
RECURSIVE Accumulate(_, _, _)
Accumulate(acc, chunks, table_name) ==
    IF chunks = <<>> THEN acc
    ELSE Accumulate(
            IF Keeps(acc, Head(chunks), table_name)
            THEN [acc EXCEPT !.all_chunks = Append(@, Head(chunks)),
                             !.seen_ids = @ \cup {Head(chunks).chunk_id}]
            ELSE acc,
            Tail(chunks), table_name)

\* a pass that goes through one query's chunks last to first
FanOutPassBackwards(acc, retrieved, table_name) ==
    Accumulate(acc, Reverse(retrieved), table_name)

\* lines 72-80, one pass of the outer loop: the accumulators after the
\* chunks retrieved for one query have been gone through
FanOutPass(acc, retrieved, table_name) == Accumulate(acc, retrieved, table_name)

(***************************************************************************)
(* LineageRAGPipeline.index_documents                                      *)
(***************************************************************************)
CountType(parsed_files, t) ==
    Cardinality({i \in DOMAIN parsed_files : parsed_files[i].file_type = t})

\* lines 150-157 and 167
UpdateStats(stats, parsed_files, all_chunks) ==
    [total_files |-> Len(parsed_files),
     sql_files |-> stats.sql_files + CountType(parsed_files, "sql"),
     ksh_files |-> stats.ksh_files + CountType(parsed_files, "ksh"),
     bteq_files |-> stats.bteq_files + CountType(parsed_files, "bteq"),
     total_chunks |-> Len(all_chunks)]

\* an assignment that keeps the previous corpus when the new one is empty
KeepChunksWhenEmpty(old_chunks, all_chunks) ==
    IF all_chunks = <<>> THEN old_chunks ELSE all_chunks

\* line 166: self.chunks = all_chunks
AssignChunks(old_chunks, all_chunks) == all_chunks

\* an embedding loop that fits as it goes: chunk i is embedded against the
\* vocabulary of the chunks up to it
EmbedChunksAsFitted(embedder, all_chunks, run) ==
    [i \in DOMAIN all_chunks |->
        [chunk_id |-> all_chunks[i].chunk_id,
         content |-> all_chunks[i].content,
         metadata |-> all_chunks[i].metadata,
         embedding |-> embed(fit([vocab |-> <<>>, idf |-> <<>>],
                                 [j \in 1..i |-> all_chunks[j].content]),
                             all_chunks[i].content),
         run |-> run]]

\* lines 175-179: every chunk is given its embedding; `run` tags the chunk
\* object with the index_documents call that created it
EmbedChunks(embedder, all_chunks, run) ==
    [i \in DOMAIN all_chunks |->
        [chunk_id |-> all_chunks[i].chunk_id,
         content |-> all_chunks[i].content,
         metadata |-> all_chunks[i].metadata,
         embedding |-> embed(embedder, all_chunks[i].content),
         run |-> run]]

\* lines 182-191: a new IndexFlatL2 when FAISS is there and there is
\* something to add; otherwise self.index is left as it is
BuildIndex(faiss_available, old_index, embeddings) ==
    IF faiss_available /\ embeddings # <<>>
    THEN <<[d |-> Len(embeddings[1].num), xb |-> embeddings]>>
    ELSE old_index

(***************************************************************************)
(* The pipeline as a state machine.  The caller (app.py, the analyzer) is  *)
(* single-threaded: it makes one call at a time and the next call starts   *)
(* after the previous one has returned or raised.                          *)
(***************************************************************************)
VARIABLES
    FAISS_AVAILABLE,    \* module flag: is the faiss import there
    chunks,             \* self.chunks
    embedder,           \* self.embedder: [vocab, idf]
    index,              \* self.index
    stats,              \* self.stats
    runs,               \* index_documents calls made so far
    call,               \* the call in progress or last finished, with its
                        \* arguments, local variables and outcome
    embed_log,          \* text -> the vector the first embed(text) call since
                        \* the last fit returned to its caller
    fitted_size,        \* len(self.embedder.vocab) when the last fit returned
    session_state,      \* st.session_state of app.py
    process,            \* the process: its working directory, and the local
                        \* clones in the workspace directory
    script,             \* index_repository of app.py: where it stands, with
                        \* its local variables
    pipelines           \* the LineageRAGPipeline objects index_repository has
                        \* constructed, in order; a reference to one is
                        \* [object |-> its position]

vars == <<FAISS_AVAILABLE, chunks, embedder, index, stats, runs, call, embed_log,
         fitted_size, session_state, process, script, pipelines>>

app == <<session_state, process, script>>

pipeline == <<FAISS_AVAILABLE, chunks, embedder, index, stats>>

Self ==
    [chunks |-> chunks, embedder |-> embedder, index |-> index,
     FAISS_AVAILABLE |-> FAISS_AVAILABLE]

\* the arguments of the calls
Queries ==
    { <<>>,
      <<"T", "1">>,
      <<"l", "o", "a", "d", " ", "c", "1">>,
      <<"z", "z", "z">> }

\* "sql" is no table of the corpora but a substring of the ".sql" paths and
\* "SQL:" headers in their chunks, which is all that line 78 asks for
TableNames ==
    { <<>>, <<"T", "1">>, <<"t", "2">>, <<"X", "9">>, <<"s", "q", "l">> }

\* "load" is a word of b.ksh only: a query with it scores that chunk highest
ColumnNames == { <<>>, <<"c", "1">>, <<"l", "o", "a", "d">> }

\* len(self.embedder.vocab)
VocabSize == Cardinality(DOMAIN embedder.vocab)

\* no call is in progress: the last one is over and was not made by a
\* function that has still to go on
Idle ==
    /\ call.status \in {"none", "returned", "raised"}
    /\ "caller" \notin DOMAIN call

\* initialize_session_state of app.py (lines 65-69), on a new session
initialize_session_state ==
    [initialized |-> FALSE, rag_pipeline |-> None, repo_indexed |-> FALSE,
     repo_path |-> None]

\* the directory the application was started in
AppDir == <<"/", "a", "p", "p">>

\* index_documents has returned on the pipeline object constructed last
NoteIndexed(objects) ==
    IF objects = <<>> THEN objects
    ELSE [objects EXCEPT ![Len(objects)].indexed = @ + 1]

\* LineageRAGPipeline.__init__ (lines 124-138)
Init ==
    /\ FAISS_AVAILABLE \in BOOLEAN
    /\ chunks = <<>>
    /\ embedder = [vocab |-> <<>>, idf |-> <<>>]
    /\ index = None
    /\ stats = [total_files |-> 0, sql_files |-> 0, ksh_files |-> 0,
                bteq_files |-> 0, total_chunks |-> 0]
    /\ runs = 0
    /\ call = [op |-> "none", status |-> "none"]
    /\ embed_log = <<>>
    /\ fitted_size = 0
    /\ session_state = initialize_session_state
    /\ process = [cwd |-> AppDir, clones |-> {}]
    /\ script = [pc |-> "idle"]
    /\ pipelines = <<>>

\* the caller invokes index_documents(parsed_files)
CallIndexDocuments(parsed_files) ==
    /\ Idle
    /\ runs < MaxRuns
    /\ call' = [op |-> "index_documents", status |-> "called",
                parsed_files |-> parsed_files]
    /\ runs' = runs + 1
    /\ UNCHANGED <<pipeline, embed_log, fitted_size, app, pipelines>>

\* the body of index_documents (lines 147-191)
IndexDocuments ==
    /\ call.op = "index_documents" /\ call.status = "called"
    /\ LET all_chunks == AllChunks(call.parsed_files)
           texts == [i \in DOMAIN all_chunks |-> all_chunks[i].content]
           fitted == fit(embedder, texts)
           embedded == EmbedChunks(fitted, all_chunks, runs)
           embeddings == [i \in DOMAIN embedded |-> embedded[i].embedding]
       IN  /\ stats' = UpdateStats(stats, call.parsed_files, all_chunks)
           /\ chunks' = AssignChunks(chunks, embedded)
           /\ embedder' = fitted
           /\ index' = BuildIndex(FAISS_AVAILABLE, index, embeddings)
    /\ call' = [call EXCEPT !.status = "returned"]
    /\ embed_log' = <<>>
    /\ fitted_size' = VocabSize'
    /\ pipelines' = NoteIndexed(pipelines)
    /\ UNCHANGED <<FAISS_AVAILABLE, runs, app>>

\* the caller invokes retrieve(query, top_k)
CallRetrieve(query, top_k) ==
    /\ Idle
    /\ call' = [op |-> "retrieve", status |-> "called",
                query |-> query, top_k |-> top_k]
    /\ UNCHANGED <<pipeline, runs, embed_log, fitted_size, app, pipelines>>

\* the body of retrieve (lines 251-273)
Retrieve ==
    /\ call.op = "retrieve" /\ call.status = "called"
    /\ \E out \in retrieve(Self, call.query, call.top_k) :
          call' = [op |-> "retrieve",
                   status |-> IF out.raised THEN "raised" ELSE "returned",
                   query |-> call.query, top_k |-> call.top_k,
                   result |-> out.result]
    /\ embedder' = IF chunks = <<>> THEN embedder
                   ELSE EmbedEffect(embedder, call.query)
    /\ UNCHANGED <<FAISS_AVAILABLE, chunks, index, stats, runs, embed_log,
                   fitted_size, app, pipelines>>

\* the analyzer invokes _find_relevant_code(table_name, column_name);
\* lines 61-70 set up the queries and the empty accumulators.  `retrieved`
\* counts the chunks the retrieve calls have returned so far and
\* `first_seen` maps a chunk id to the position of its first occurrence
\* among them.
CallFindRelevantCode(table_name, column_name) ==
    /\ Idle
    /\ call' = [op |-> "_find_relevant_code", status |-> "called",
                table_name |-> table_name, column_name |-> column_name,
                queries |-> FanOutQueries(table_name, column_name),
                done |-> 0,
                all_chunks |-> <<>>, seen_ids |-> {},
                retrieved |-> 0, first_seen |-> <<>>]
    /\ UNCHANGED <<pipeline, runs, embed_log, fitted_size, app, pipelines>>

\* first_seen after one more retrieve result
NoteFirstSeen(first_seen, retrieved, result) ==
    LET new_ids == {result[p].chunk_id : p \in DOMAIN result} \ DOMAIN first_seen
    IN  [id \in (DOMAIN first_seen) \cup new_ids |->
            IF id \in DOMAIN first_seen THEN first_seen[id]
            ELSE retrieved + (CHOOSE p \in DOMAIN result :
                                /\ result[p].chunk_id = id
                                /\ \A r \in 1..(p - 1) : result[r].chunk_id # id)]

\* one pass of the loop of lines 72-80 for the next query; after the last
\* query line 82 returns all_chunks
FindRelevantCodeStep ==
    /\ call.op = "_find_relevant_code" /\ call.status = "called"
    /\ \E out \in retrieve(Self, call.queries[call.done + 1], FanOutTopK) :
          IF out.raised
          THEN call' = [call EXCEPT !.status = "raised"]
          ELSE LET acc == FanOutPass([all_chunks |-> call.all_chunks,
                                      seen_ids |-> call.seen_ids],
                                     out.result, call.table_name)
               IN  call' = [call EXCEPT
                              !.done = @ + 1,
                              !.all_chunks = acc.all_chunks,
                              !.seen_ids = acc.seen_ids,
                              !.retrieved = @ + Len(out.result),
                              !.first_seen = NoteFirstSeen(@, call.retrieved,
                                                           out.result),
                              !.status = IF call.done + 1 = Len(call.queries)
                                         THEN "returned" ELSE "called"]
    /\ embedder' = IF chunks = <<>> THEN embedder
                   ELSE EmbedEffect(embedder, call.queries[call.done + 1])
    /\ UNCHANGED <<FAISS_AVAILABLE, chunks, index, stats, runs, embed_log,
                   fitted_size, app, pipelines>>

Next ==
    \/ \E parsed_files \in Corpora \cup LargeCorpora(FAISS_AVAILABLE) :
          CallIndexDocuments(parsed_files)
    \/ IndexDocuments
    \/ \E query \in Queries, top_k \in 0..MaxTopK : CallRetrieve(query, top_k)
    \/ Retrieve
    \/ \E table_name \in TableNames, column_name \in ColumnNames :
          CallFindRelevantCode(table_name, column_name)
    \/ FindRelevantCodeStep

Spec == Init /\ [][Next]_vars

(***************************************************************************)
(* The embedder called directly, between index_documents and retrieve      *)
(* calls on its pipeline.                                                  *)
(***************************************************************************)
\* a caller invokes self.embedder.embed(text)
CallEmbed(text) ==
    /\ Idle
    /\ call' = [op |-> "embed", status |-> "called", text |-> text]
    /\ UNCHANGED <<pipeline, runs, embed_log, fitted_size, app, pipelines>>

\* embed_log after embed(text) has returned vector to its caller
NoteEmbedded(memo, text, vector) ==
    IF text \in DOMAIN memo THEN memo ELSE memo @@ (text :> vector)

\* the body of embed (lines 70-92); `again` tells that embed(text) had
\* returned before, since the last fit
Embed ==
    /\ call.op = "embed" /\ call.status = "called"
    /\ LET vector == embed(embedder, call.text)
       IN  /\ call' = [op |-> "embed", status |-> "returned",
                       text |-> call.text, result |-> vector,
                       again |-> call.text \in DOMAIN embed_log]
           /\ embed_log' = NoteEmbedded(embed_log, call.text, vector)
    /\ embedder' = EmbedEffect(embedder, call.text)
    /\ UNCHANGED <<FAISS_AVAILABLE, chunks, index, stats, runs, fitted_size, app,
                   pipelines>>

\* the texts embedded directly: empty, unknown words only, known words, and
\* one word that most chunks of a corpus hold
EmbedTexts ==
    { <<>>,
      <<"z", "z", "z">>,
      <<"l", "o", "a", "d", " ", "c", "1">>,
      <<"c", "1">> }

EmbedNext ==
    \/ \E parsed_files \in Corpora : CallIndexDocuments(parsed_files)
    \/ IndexDocuments
    \/ \E text \in EmbedTexts : CallEmbed(text)
    \/ Embed
    \/ \E query \in EmbedTexts : CallRetrieve(query, MaxTopK)
    \/ Retrieve

EmbedSpec == Init /\ [][EmbedNext]_vars

(***************************************************************************)
(* The chunker, applied by index_documents to files of every shape: with   *)
(* no, one and two statements, with statement ids that skip a number, and  *)
(* with a path that reads like a chunk id.                                 *)
(***************************************************************************)
\* one index_documents call on a new pipeline: what _create_chunks returns
\* depends on the file alone
ChunkNext ==
    \/ \E parsed_files \in ChunkCorpora :
          runs = 0 /\ CallIndexDocuments(parsed_files)
    \/ IndexDocuments

ChunkSpec == Init /\ [][ChunkNext]_vars

(***************************************************************************)
(* The parser applied to SQL files, and index_documents applied to what it *)
(* returns: tables written in either case, several times, with and without *)
(* a database name, behind every keyword of PATTERNS.                      *)
(***************************************************************************)
\* the contents of the SQL files parsed
SqlTexts ==
    {
      \* "select a from t1; x; select b from T1 inner join t3;"
      <<"s", "e", "l", "e", "c", "t", " ", "a", " ", "f", "r", "o", "m",
        " ", "t", "1", ";", " ", "x", ";", " ", "s", "e", "l", "e", "c",
        "t", " ", "b", " ", "f", "r", "o", "m", " ", "T", "1", " ", "i",
        "n", "n", "e", "r", " ", "j", "o", "i", "n", " ", "t", "3", ";">>,
      \* "insert into Db.T1 select c from t1 JOIN T2;"
      <<"i", "n", "s", "e", "r", "t", " ", "i", "n", "t", "o", " ", "D",
        "b", ".", "T", "1", " ", "s", "e", "l", "e", "c", "t", " ", "c",
        " ", "f", "r", "o", "m", " ", "t", "1", " ", "J", "O", "I", "N",
        " ", "T", "2", ";">>,
      \* "SELECT b FROM T1 join t1 left join T1;"
      <<"S", "E", "L", "E", "C", "T", " ", "b", " ", "F", "R", "O", "M",
        " ", "T", "1", " ", "j", "o", "i", "n", " ", "t", "1", " ", "l",
        "e", "f", "t", " ", "j", "o", "i", "n", " ", "T", "1", ";">>,
      \* "update t2 set x = 1; UPDATE T2 set x = 2;"
      <<"u", "p", "d", "a", "t", "e", " ", "t", "2", " ", "s", "e", "t",
        " ", "x", " ", "=", " ", "1", ";", " ", "U", "P", "D", "A", "T",
        "E", " ", "T", "2", " ", "s", "e", "t", " ", "x", " ", "=", " ",
        "2", ";">>,
      \* "create multiset table a.b (c int); CREATE SET TABLE A.B (c int);"
      <<"c", "r", "e", "a", "t", "e", " ", "m", "u", "l", "t", "i", "s",
        "e", "t", " ", "t", "a", "b", "l", "e", " ", "a", ".", "b", " ",
        "(", "c", " ", "i", "n", "t", ")", ";", " ", "C", "R", "E", "A",
        "T", "E", " ", "S", "E", "T", " ", "T", "A", "B", "L", "E", " ",
        "A", ".", "B", " ", "(", "c", " ", "i", "n", "t", ")", ";">>,
      \* "merge into M1 using t1 ;FROM FROM t"
      <<"m", "e", "r", "g", "e", " ", "i", "n", "t", "o", " ", "M", "1",
        " ", "u", "s", "i", "n", "g", " ", "t", "1", " ", ";", "F", "R",
        "O", "M", " ", "F", "R", "O", "M", " ", "t">>,
      \* "x"
      <<"x">>,
      \* "DELETE FROM T2 WHERE C1 = 0; delete from t2;"
      <<"D", "E", "L", "E", "T", "E", " ", "F", "R", "O", "M", " ", "T",
        "2", " ", "W", "H", "E", "R", "E", " ", "C", "1", " ", "=", " ",
        "0", ";", " ", "d", "e", "l", "e", "t", "e", " ", "f", "r", "o",
        "m", " ", "t", "2", ";">> }

\* _parse_sql_file(file_path, content) is called and returns
ParseSqlFile(file_path, content) ==
    /\ Idle
    /\ call' = [op |-> "_parse_sql_file", status |-> "returned",
                result |-> _parse_sql_file(file_path, content)]
    /\ UNCHANGED <<pipeline, runs, embed_log, fitted_size, app, pipelines>>

\* the parsed file is indexed, on a new pipeline
IndexParsedFile ==
    /\ call.op = "_parse_sql_file"
    /\ runs = 0
    /\ CallIndexDocuments(<<call.result>>)

ParseNext ==
    \/ \E content \in SqlTexts : ParseSqlFile(<<"p", ".", "s", "q", "l">>, content)
    \/ IndexParsedFile
    \/ IndexDocuments

ParseSpec == Init /\ [][ParseNext]_vars

(***************************************************************************)
(* LineageAnalyzer._prepare_context, applied to lists of up to twenty      *)
(* chunks.                                                                 *)
(***************************************************************************)
\* chunks[:15]
ContextLimit == 15

\* metadata.get(key, 'Unknown') for the keys file_path and statement_type
MetadataGet(metadata, key) ==
    IF key \in DOMAIN metadata THEN metadata[key]
    ELSE <<"U", "n", "k", "n", "o", "w", "n">>

\* one element of context_parts
ContextPart(i, chunk) ==
    <<"\n", "-", "-", "-", " ", "C", "o", "d", "e", " ", "C", "h", "u", "n",
      "k", " ">> \o IntToStr(i) \o <<" ", "-", "-", "-">>
    \o <<"\n", "F", "i", "l", "e", ":", " ">>
    \o MetadataGet(chunk.metadata, "file_path")
    \o <<"\n", "T", "y", "p", "e", ":", " ">>
    \o MetadataGet(chunk.metadata, "statement_type")
    \o <<"\n", "T", "a", "b", "l", "e", "s", ":", " ">>
    \o join(<<",", " ">>, chunk.metadata.tables)
    \o <<"\n", "\n">> \o chunk.content \o <<"\n">>

\* a _prepare_context that takes every chunk it is given
_prepare_contextOfAll(list) ==
    [context_parts |-> [i \in DOMAIN list |-> ContextPart(i, list[i])],
     read |-> DOMAIN list]

\* _prepare_context(chunks): context_parts, which the function joins with
\* "\n", and the positions of the list whose chunk it reads
_prepare_context(list) ==
    LET taken == Prefix(list, ContextLimit)
    IN  [context_parts |-> [i \in DOMAIN taken |-> ContextPart(i, taken[i])],
         read |-> DOMAIN taken]

\* twenty chunks of nine files
PromptChunks ==
    AllChunks(<<FileA, FileB, FileC, FileD, FileE, FileF, FileG,
                _parse_sql_file(<<"p", ".", "s", "q", "l">>,
                    <<"u", "p", "d", "a", "t", "e", " ", "t", "2", " ", "s",
                      "e", "t", " ", "x", " ", "=", " ", "1", ";", " ", "U",
                      "P", "D", "A", "T", "E", " ", "T", "2", " ", "s", "e",
                      "t", " ", "x", " ", "=", " ", "2", ";">>),
                _parse_sql_file(<<"q", ".", "s", "q", "l">>,
                    <<"s", "e", "l", "e", "c", "t", " ", "a", " ", "f", "r",
                      "o", "m", " ", "t", "1", ";", " ", "x", ";", " ", "s",
                      "e", "l", "e", "c", "t", " ", "b", " ", "f", "r", "o",
                      "m", " ", "T", "1", ";">>)>>)

\* _prepare_context(list) is called and returns
PrepareContext(list) ==
    /\ Idle
    /\ call' = [op |-> "_prepare_context", status |-> "returned",
                chunks |-> list, result |-> _prepare_context(list)]
    /\ UNCHANGED <<pipeline, runs, embed_log, fitted_size, app, pipelines>>

PromptNext ==
    \E first \in 1..Len(PromptChunks), last \in 0..Len(PromptChunks) :
        PrepareContext(SubSeq(PromptChunks, first, last))

PromptSpec == Init /\ [][PromptNext]_vars

(***************************************************************************)
(* LineageAnalyzer.analyze_column_lineage: the fan-out, then, if it found  *)
(* a chunk, one query to the LLM and the parsing of its response.  The LLM *)
(* is outside src/: query_llm returns some text, here any of Responses,    *)
(* whatever the prompt.  json.loads is a library too: json_loads gives its *)
(* value on the JSON texts among the responses.                            *)
(***************************************************************************)
\* {"a": 1}
JsonOther ==
    <<"{", "\"", "a", "\"", ":", " ", "1", "}">>

\* {}
JsonEmpty ==
    <<"{", "}">>

\* {"summary": "s", "target": {}, "lineage_chain": [], "source_tables": []}
JsonNoChain ==
    <<"{", "\"", "s", "u", "m", "m", "a", "r", "y", "\"", ":", " ", "\"",
      "s", "\"", ",", " ", "\"", "t", "a", "r", "g", "e", "t", "\"", ":",
      " ", "{", "}", ",", " ", "\"", "l", "i", "n", "e", "a", "g", "e", "_",
      "c", "h", "a", "i", "n", "\"", ":", " ", "[", "]", ",", " ", "\"",
      "s", "o", "u", "r", "c", "e", "_", "t", "a", "b", "l", "e", "s", "\"",
      ":", " ", "[", "]", "}">>

\* {"summary": "s", "target": {}, "lineage_chain": [{"level": 1}], "source_tables": []}
JsonLineage ==
    <<"{", "\"", "s", "u", "m", "m", "a", "r", "y", "\"", ":", " ", "\"",
      "s", "\"", ",", " ", "\"", "t", "a", "r", "g", "e", "t", "\"", ":",
      " ", "{", "}", ",", " ", "\"", "l", "i", "n", "e", "a", "g", "e", "_",
      "c", "h", "a", "i", "n", "\"", ":", " ", "[", "{", "\"", "l", "e",
      "v", "e", "l", "\"", ":", " ", "1", "}", "]", ",", " ", "\"", "s",
      "o", "u", "r", "c", "e", "_", "t", "a", "b", "l", "e", "s", "\"", ":",
      " ", "[", "]", "}">>

\* what query_llm returns: plain text, malformed JSON, text around JSON, and
\* JSON objects of several shapes
Responses ==
    { <<"n", "o", " ", "l", "i", "n", "e", "a", "g", "e">>,
      <<"{", "o", "o", "p", "s", "}">>,
      <<"a", " ", "}", " ", "b", " ", "{", " ", "c">>,
      <<"o", "k", " ">> \o JsonOther,
      JsonEmpty,
      JsonNoChain,
      JsonLineage }

\* json.loads(text): the dict, or JSONDecodeError
json_loads(text) ==
    IF text = JsonOther THEN [error |-> FALSE, value |-> [a |-> 1]]
    ELSE IF text = JsonEmpty THEN [error |-> FALSE, value |-> <<>>]
    ELSE IF text = JsonNoChain
    THEN [error |-> FALSE,
          value |-> [summary |-> <<"s">>, target |-> <<>>,
                     lineage_chain |-> <<>>, source_tables |-> <<>>]]
    ELSE IF text = JsonLineage
    THEN [error |-> FALSE,
          value |-> [summary |-> <<"s">>, target |-> <<>>,
                     lineage_chain |-> <<[level |-> 1]>>,
                     source_tables |-> <<>>]]
    ELSE [error |-> TRUE]

\* re.search(r'\{.*\}', response, re.DOTALL): from the first opening brace
\* that has a closing brace after it to the last closing brace; <<>> if the
\* response has no such pair
SearchBraces(response) ==
    LET closing == {i \in DOMAIN response : response[i] = "}"}
        opening == {i \in DOMAIN response :
                       response[i] = "{" /\ \E j \in closing : i < j}
    IN  IF opening = {} THEN <<>>
        ELSE <<CHOOSE i \in opening : \A j \in opening : i <= j,
               CHOOSE i \in closing : \A j \in closing : j <= i>>

\* response[:500]
SummaryLen == 500
\* response[:1000]
SnippetLen == 1000

\* the dict built from a response that holds no JSON
FallbackResult(response, table_name, column_name) ==
    [summary |-> Prefix(response, SummaryLen),
     target |-> [table |-> table_name, column |-> column_name],
     lineage_chain |->
        <<[level |-> 1, table |-> table_name, column |-> column_name,
           operation |-> "Unknown", source_file |-> "Not parsed",
           code_snippet |-> Prefix(response, SnippetLen)]>>,
     source_tables |-> <<>>,
     transformations |-> <<>>,
     raw_response |-> response]

\* a _parse_llm_response that makes its own dict of every response
_parse_llm_responseAsText(response, table_name, column_name) ==
    FallbackResult(response, table_name, column_name)

_parse_llm_response(response, table_name, column_name) ==
    LET json_match == SearchBraces(response)
        loaded == json_loads(SubSeq(response, json_match[1], json_match[2]))
    IN  IF json_match # <<>> /\ ~loaded.error THEN loaded.value
        ELSE FallbackResult(response, table_name, column_name)

required_fields == {"summary", "target", "lineage_chain", "source_tables"}

\* validate_lineage; lineage_chain is a list in every dict of the model, and
\* `not` of a list tells that it is empty
validate_lineage(lineage_result) ==
    /\ \A field \in required_fields : field \in DOMAIN lineage_result
    /\ lineage_result.lineage_chain # <<>>

\* analyze_column_lineage(table_name, column_name) is called and calls
\* _find_relevant_code; `llm_calls` counts the calls of query_llm
CallAnalyze(table_name, column_name) ==
    /\ Idle
    /\ call' = [op |-> "_find_relevant_code", status |-> "called",
                table_name |-> table_name, column_name |-> column_name,
                queries |-> FanOutQueries(table_name, column_name),
                done |-> 0,
                all_chunks |-> <<>>, seen_ids |-> {},
                retrieved |-> 0, first_seen |-> <<>>,
                caller |-> "analyze_column_lineage", llm_calls |-> 0]
    /\ UNCHANGED <<pipeline, runs, embed_log, fitted_size, app, pipelines>>

\* an analysis that asks the LLM whatever the fan-out found
AfterFanOutAsksAlways(fan_out) ==
    [op |-> "analyze_column_lineage",
     status |-> IF fan_out.status = "raised" THEN "raised" ELSE "called",
     table_name |-> fan_out.table_name, column_name |-> fan_out.column_name,
     relevant_chunks |-> fan_out.all_chunks,
     llm_calls |-> fan_out.llm_calls,
     returned_none |-> FALSE, result |-> <<>>]

\* analyze_column_lineage once _find_relevant_code is over (lines 39-46): an
\* exception goes on to the caller, no chunk ends the analysis with None,
\* else _analyze_with_llm is entered
AfterFanOut(fan_out) ==
    [op |-> "analyze_column_lineage",
     status |-> IF fan_out.status = "raised" THEN "raised"
                ELSE IF fan_out.all_chunks = <<>> THEN "returned"
                ELSE "called",
     table_name |-> fan_out.table_name, column_name |-> fan_out.column_name,
     relevant_chunks |-> fan_out.all_chunks,
     llm_calls |-> fan_out.llm_calls,
     returned_none |-> fan_out.status # "raised" /\ fan_out.all_chunks = <<>>,
     result |-> <<>>]

AnalyzeAfterFanOut ==
    /\ call.op = "_find_relevant_code" /\ "caller" \in DOMAIN call
    /\ call.status \in {"returned", "raised"}
    /\ call' = AfterFanOut(call)
    /\ UNCHANGED <<pipeline, runs, embed_log, fitted_size, app, pipelines>>

\* _analyze_with_llm (lines 84-105): the context and the prompt are made,
\* query_llm is called once and its response is parsed
AnalyzeWithLlm ==
    /\ call.op = "analyze_column_lineage" /\ call.status = "called"
    /\ \E response \in Responses :
          call' = [call EXCEPT
                     !.status = "returned",
                     !.llm_calls = @ + 1,
                     !.result = _parse_llm_response(response, call.table_name,
                                                    call.column_name)]
    /\ UNCHANGED <<pipeline, runs, embed_log, fitted_size, app, pipelines>>

AnalyzeNext ==
    \/ \E parsed_files \in Corpora \cup LargeCorpora(FAISS_AVAILABLE) :
          runs = 0 /\ CallIndexDocuments(parsed_files)
    \/ IndexDocuments
    \/ \E table_name \in TableNames, column_name \in ColumnNames :
          CallAnalyze(table_name, column_name)
    \/ FindRelevantCodeStep
    \/ AnalyzeAfterFanOut
    \/ AnalyzeWithLlm

AnalyzeSpec == Init /\ [][AnalyzeNext]_vars

(***************************************************************************)
(* The 'Index Repository' action of the Streamlit application:             *)
(*   src/app.py                  index_repository                          *)
(*   src/src/github_ingestion.py GitHubIngestion.clone_or_pull             *)
(* The handler runs statement by statement; git, the file system and the   *)
(* LLM client libraries decide which of its calls raise.  The pipeline     *)
(* under construction is the one the variables chunks, embedder, index and *)
(* stats describe.                                                         *)
(***************************************************************************)
\* s.rstrip(c) for a one-character c
rstrip(s, c) ==
    LET kept == {i \in DOMAIN s : s[i] # c}
    IN  IF kept = {} THEN <<>>
        ELSE SubSeq(s, 1, CHOOSE i \in kept : \A j \in kept : j <= i)

\* s.endswith(suffix)
EndsWith(s, suffix) ==
    Len(suffix) <= Len(s)
        /\ SubSeq(s, Len(s) - Len(suffix) + 1, Len(s)) = suffix

DotGit == <<".", "g", "i", "t">>

\* clone_or_pull, lines 57-59: the last segment of the URL without '.git'
repo_name(repo_url) ==
    LET segments == SplitOn(rstrip(repo_url, "/"), "/")
        name == segments[Len(segments)]
    IN  IF EndsWith(name, DotGit) THEN SubSeq(name, 1, Len(name) - Len(DotGit))
        ELSE name

\* GitHubIngestion.__init__, line 32, with /tmp as the temporary directory
workspace ==
    <<"/", "t", "m", "p", "/", "t", "e", "r", "a", "d", "a", "t", "a", "_",
      "l", "i", "n", "e", "a", "g", "e", "_", "w", "o", "r", "k", "s", "p",
      "a", "c", "e">>

\* clone_or_pull, line 61: self.workspace / repo_name
local_path(repo_url) == workspace \o <<"/">> \o repo_name(repo_url)

\* the repository URLs the user enters: two spellings of one repository and
\* another repository
RepoUrls ==
    LET owner == <<"h", "t", "t", "p", "s", ":", "/", "/", "g", "i", "t", "h",
                   "u", "b", ".", "c", "o", "m", "/", "o", "/">>
    IN  { owner \o <<"r", "1", ".", "g", "i", "t">>,
          owner \o <<"r", "1", "/">>,
          owner \o <<"r", "2">> }

\* what parse_all_files finds in a clone: the files of a repository change
\* from one pull to the next
RepoCorpora == { <<>>, <<FileB>>, <<FileB, FileA>> }

\* the handler is over: `outcome` tells how, `frame` keeps its last frame
Finished(outcome) ==
    script' = [pc |-> "idle", outcome |-> outcome, frame |-> script]

\* the user presses 'Index Repository' (lines 148-161): GitHubIngestion is
\* constructed and clone_or_pull is called.  `before` keeps the session
\* state and the working directory the action started with.
IndexRepository(config) ==
    /\ script.pc = "idle"
    /\ Idle
    /\ runs < MaxRuns
    /\ script' = [pc |-> "clone_or_pull", config |-> config,
                  before |-> [session_state |-> session_state,
                              cwd |-> process.cwd]]
    /\ UNCHANGED <<pipeline, runs, call, embed_log, fitted_size, session_state,
                   process, pipelines>>

\* clone_or_pull, lines 57-68: the local path, and the choice of the path
CloneOrPull ==
    /\ script.pc = "clone_or_pull"
    /\ LET path == local_path(script.config.repo_url)
       IN  script' = [pc |-> IF path \in process.clones THEN "_pull_changes"
                             ELSE "_clone_repo",
                      config |-> script.config, before |-> script.before,
                      local_path |-> path,
                      pulled |-> path \in process.clones]
    /\ UNCHANGED <<pipeline, runs, call, embed_log, fitted_size, session_state,
                   process, pipelines>>

\* _clone_repo (lines 76-95): git clone makes the local clone, or fails and
\* clone_or_pull raises (lines 73-74), which index_repository catches
\* (lines 193-196)
CloneRepo ==
    /\ script.pc = "_clone_repo"
    /\ \E ok \in BOOLEAN :
          IF ok
          THEN /\ process' = [process EXCEPT
                                 !.clones = @ \cup {script.local_path}]
               /\ script' = [script EXCEPT !.pc = "cloned"]
          ELSE /\ Finished("error")
               /\ UNCHANGED process
    /\ UNCHANGED <<pipeline, runs, call, embed_log, fitted_size, session_state,
                   pipelines>>

\* _pull_changes, lines 99-102: os.getcwd() and os.chdir(self.local_path);
\* `failed` names the call of the try block that has raised
PullChdir ==
    /\ script.pc = "_pull_changes"
    /\ \E ok \in BOOLEAN :
          /\ script' = [script @@ [original_dir |-> process.cwd,
                                   failed |-> IF ok THEN "none" ELSE "chdir"]
                           EXCEPT !.pc = IF ok THEN "git_reset" ELSE "finally"]
          /\ process' = IF ok THEN [process EXCEPT !.cwd = script.local_path]
                        ELSE process
    /\ UNCHANGED <<pipeline, runs, call, embed_log, fitted_size, session_state,
                   pipelines>>

\* _pull_changes, lines 104-109: git reset --hard
GitReset ==
    /\ script.pc = "git_reset"
    /\ \E ok \in BOOLEAN :
          script' = [script EXCEPT !.pc = IF ok THEN "git_pull" ELSE "finally",
                                   !.failed = IF ok THEN "none" ELSE "reset"]
    /\ UNCHANGED <<pipeline, runs, call, embed_log, fitted_size, session_state,
                   process, pipelines>>

\* _pull_changes, lines 111-116: git pull origin <branch>
GitPull ==
    /\ script.pc = "git_pull"
    /\ \E ok \in BOOLEAN :
          script' = [script EXCEPT !.pc = "finally",
                                   !.failed = IF ok THEN "none" ELSE "pull"]
    /\ UNCHANGED <<pipeline, runs, call, embed_log, fitted_size, session_state,
                   process, pipelines>>

\* a finally clause that leaves the working directory where the try block
\* has put it
_pull_changesFinallyStays(cwd, original_dir) == cwd

\* _pull_changes, lines 120-121: the working directory after the finally
\* clause
_pull_changesFinally(cwd, original_dir) == original_dir

\* the finally clause of _pull_changes, then the return of clone_or_pull
\* (line 71) or its exception (lines 73-74)
PullFinally ==
    /\ script.pc = "finally"
    /\ process' = [process EXCEPT
                      !.cwd = _pull_changesFinally(@, script.original_dir)]
    /\ IF script.failed # "none" THEN Finished("error")
       ELSE script' = [script EXCEPT !.pc = "cloned"]
    /\ UNCHANGED <<pipeline, runs, call, embed_log, fitted_size, session_state,
                   pipelines>>

\* a handler that marks the repository as indexed as soon as it is cloned
AfterCloneMarksIndexed(session, repo_path) ==
    [session EXCEPT !.repo_path = repo_path, !.repo_indexed = TRUE]

\* index_repository, line 163: the session state after clone_or_pull
AfterClone(session, repo_path) == [session EXCEPT !.repo_path = repo_path]

\* index_repository, lines 162-164
AssignRepoPath ==
    /\ script.pc = "cloned"
    /\ session_state' = AfterClone(session_state, script.local_path)
    /\ script' = [script EXCEPT !.pc = "parse_all_files"]
    /\ UNCHANGED <<pipeline, runs, call, embed_log, fitted_size, process,
                   pipelines>>

\* index_repository, lines 167-170: parse_all_files reports the files it
\* cannot parse and goes on (code_parser.py, lines 92-97)
ParseAllFiles ==
    /\ script.pc = "parse_all_files"
    /\ \E parsed_files \in RepoCorpora :
          script' = [script @@ [parsed_files |-> parsed_files]
                        EXCEPT !.pc = "LineageRAGPipeline"]
    /\ UNCHANGED <<pipeline, runs, call, embed_log, fitted_size, session_state,
                   process, pipelines>>

\* index_repository, lines 173-183: a new LineageRAGPipeline, whose
\* constructor makes the LLM client (rag_pipeline.py, lines 115-118) and
\* raises when the client library does; then the call of index_documents
BuildPipeline ==
    /\ script.pc = "LineageRAGPipeline"
    /\ \E ok \in BOOLEAN :
          IF ok
          THEN /\ chunks' = <<>>
               /\ embedder' = [vocab |-> <<>>, idf |-> <<>>]
               /\ index' = None
               /\ stats' = [total_files |-> 0, sql_files |-> 0, ksh_files |-> 0,
                            bteq_files |-> 0, total_chunks |-> 0]
               /\ embed_log' = <<>>
               /\ fitted_size' = 0
               /\ pipelines' = Append(pipelines,
                                      [built_from |-> script.local_path,
                                       indexed |-> 0])
               /\ call' = [op |-> "index_documents", status |-> "called",
                           parsed_files |-> script.parsed_files]
               /\ runs' = runs + 1
               /\ script' = [script EXCEPT !.pc = "index_documents"]
          ELSE /\ Finished("error")
               /\ UNCHANGED <<chunks, embedder, index, stats, embed_log,
                              fitted_size, pipelines, call, runs>>
    /\ UNCHANGED <<FAISS_AVAILABLE, session_state, process>>

\* index_repository, line 184, once index_documents has returned
AssignPipeline ==
    /\ script.pc = "index_documents"
    /\ call.op = "index_documents" /\ call.status = "returned"
    /\ session_state' = [session_state EXCEPT
                            !.rag_pipeline = [object |-> Len(pipelines)]]
    /\ script' = [script EXCEPT !.pc = "indexed"]
    /\ UNCHANGED <<pipeline, runs, call, embed_log, fitted_size, process,
                   pipelines>>

\* index_repository, lines 187-191
MarkIndexed ==
    /\ script.pc = "indexed"
    /\ session_state' = [session_state EXCEPT !.repo_indexed = TRUE,
                                              !.initialized = TRUE]
    /\ Finished("complete")
    /\ UNCHANGED <<pipeline, runs, call, embed_log, fitted_size, process,
                   pipelines>>

AppNext ==
    \/ \E repo_url \in RepoUrls : IndexRepository([repo_url |-> repo_url])
    \/ CloneOrPull
    \/ CloneRepo
    \/ PullChdir
    \/ GitReset
    \/ GitPull
    \/ PullFinally
    \/ AssignRepoPath
    \/ ParseAllFiles
    \/ BuildPipeline
    \/ IndexDocuments
    \/ AssignPipeline
    \/ MarkIndexed

AppSpec == Init /\ [][AppNext]_vars

(***************************************************************************)
(* Properties of the retrieval fan-out.                                    *)
(***************************************************************************)
FanOutReturned == call.op = "_find_relevant_code" /\ call.status = "returned"

FanOutFinished ==
    call.op = "_find_relevant_code" /\ call.status \in {"returned", "raised"}

\* the ids of the chunks the fan-out has kept, in order
KeptIds == [i \in DOMAIN call.all_chunks |-> call.all_chunks[i].chunk_id]

\* 1-based position in self.chunks of the chunk with this id
PosOf(id) == CHOOSE i \in DOMAIN chunks : chunks[i].chunk_id = id

\* C1: the list _find_relevant_code returns holds no chunk id twice, and the
\* upper-cased content of every chunk in it contains the upper-cased table
\* name.
C1_DedupAndContainment ==
    FanOutReturned =>
        /\ \A i, j \in DOMAIN KeptIds : i # j => KeptIds[i] # KeptIds[j]
        /\ \A i \in DOMAIN call.all_chunks :
              Contains(upper(call.table_name), upper(call.all_chunks[i].content))

\* a fan-out for a named table has returned two or more chunks, after the
\* retrieve calls returned some chunk more than once and some chunk that does
\* not mention the table
C1_Witness ==
    /\ FanOutReturned
    /\ call.table_name # <<>>
    /\ Len(call.all_chunks) >= 2
    /\ call.retrieved > Cardinality(DOMAIN call.first_seen)
    /\ \E id \in DOMAIN call.first_seen : id \notin call.seen_ids

\* C2: the fan-out returns the empty list, and does not raise, whenever the
\* corpus is empty or the table name or the column name is the empty string.
C2_EmptyInputEmptyList ==
    (/\ FanOutFinished
     /\ \/ chunks = <<>>
        \/ call.table_name = <<>>
        \/ call.column_name = <<>>)
    => (call.status = "returned" /\ call.all_chunks = <<>>)

(***************************************************************************)
(* Properties of retrieve.                                                 *)
(***************************************************************************)
RetrieveReturned == call.op = "retrieve" /\ call.status = "returned"

RetrieveFinished ==
    call.op = "retrieve" /\ call.status \in {"returned", "raised"}

\* C3: the chunks retrieve returns are in non-decreasing distance to the
\* query vector, and of two chunks at the same distance the one that comes
\* first in the corpus comes first in the result; on both search paths.
C3_RankingStable ==
    RetrieveReturned =>
        LET q == embed(embedder, call.query)
        IN  \A p \in 1..(Len(call.result) - 1) :
                LET c == CmpDist(q, call.result[p].embedding,
                                    call.result[p + 1].embedding)
                IN  \/ c < 0
                    \/ /\ c = 0
                       /\ PosOf(call.result[p].chunk_id)
                            < PosOf(call.result[p + 1].chunk_id)

\* C4: on a corpus of n >= 1 chunks retrieve(query, k) returns k chunks when
\* k <= n (none for k = 0) and all n chunks when k > n.
C4_ResultSize ==
    (RetrieveFinished /\ chunks # <<>>) =>
        /\ call.status = "returned"
        /\ Len(call.result) = Min(call.top_k, Len(chunks))

(***************************************************************************)
(* Properties of index_documents.                                          *)
(***************************************************************************)
IndexReturned == call.op = "index_documents" /\ call.status = "returned"

\* the tokens of the current corpus
CorpusTokens ==
    UNION {Range(split(lower(chunks[i].content))) : i \in DOMAIN chunks}

\* C5: after index_documents the vocabulary and the IDF table hold exactly
\* the tokens of the corpus just indexed, nothing of an earlier corpus.
C5_VocabularyReplaced ==
    IndexReturned =>
        /\ DOMAIN embedder.vocab = CorpusTokens
        /\ DOMAIN embedder.idf = CorpusTokens

\* C6: after index_documents the statistics are the counts of the input of
\* that call alone.
C6_StatsRecomputed ==
    IndexReturned =>
        stats = [total_files |-> Len(call.parsed_files),
                 sql_files |-> CountType(call.parsed_files, "sql"),
                 ksh_files |-> CountType(call.parsed_files, "ksh"),
                 bteq_files |-> CountType(call.parsed_files, "bteq"),
                 total_chunks |-> Len(AllChunks(call.parsed_files))]

(***************************************************************************)
(* Properties of re-indexing and of the two search paths.                  *)
(***************************************************************************)
\* every chunk of the list is a chunk of self.chunks made by the latest
\* index_documents call
AllCurrent(list) ==
    \A p \in DOMAIN list : list[p] \in Range(chunks) /\ list[p].run = runs

\* C7: retrieve, and so the fan-out, returns only chunks of the corpus
\* indexed last; no chunk of a discarded corpus, on either search path.
C7_OnlyCurrentCorpus ==
    /\ RetrieveReturned => AllCurrent(call.result)
    /\ FanOutReturned => AllCurrent(call.all_chunks)

\* retrieve has returned chunks on a pipeline indexed twice, whose
\* vocabulary still shows the tokens of the discarded corpus
C7_Witness ==
    /\ RetrieveReturned
    /\ runs = 2
    /\ call.result # <<>>
    /\ DOMAIN embedder.vocab # CorpusTokens

\* the vectors held by self.index
IndexVectors == IF index = None THEN <<>> ELSE index[1].xb

\* C8: after index_documents the index holds exactly the embeddings of the
\* current corpus, position i the vector of chunks[i], also when the new
\* corpus is empty.
C8_IndexReplaced ==
    (IndexReturned /\ FAISS_AVAILABLE) =>
        IndexVectors = [i \in DOMAIN chunks |-> chunks[i].embedding]

\* C9: the brute-force scan and the accelerated index give the same ranking:
\* what the brute-force path has returned for a corpus, query and k is what
\* the accelerated path returns for them.
C9_PathsAgree ==
    (RetrieveFinished /\ chunks # <<>> /\ ~FAISS_AVAILABLE) =>
        LET accelerated ==
                [Self EXCEPT
                    !.FAISS_AVAILABLE = TRUE,
                    !.index = BuildIndex(TRUE, None,
                                  [i \in DOMAIN chunks |-> chunks[i].embedding])]
        IN  [raised |-> call.status = "raised", result |-> call.result]
                \in retrieve(accelerated, call.query, call.top_k)

\* C10: the fan-out keeps chunks in the order of their first occurrence in
\* the concatenation of the five top-5 results: every retrieved chunk that
\* mentions the table is kept, and of two kept chunks the one that occurred
\* first comes first.
C10_FirstOccurrenceOrder ==
    call.op = "_find_relevant_code" =>
        /\ {KeptIds[i] : i \in DOMAIN KeptIds}
              = {id \in DOMAIN call.first_seen :
                    Contains(upper(call.table_name), upper(chunks[PosOf(id)].content))}
        /\ \A i, j \in DOMAIN KeptIds :
              i < j => call.first_seen[KeptIds[i]] < call.first_seen[KeptIds[j]]

\* a fan-out for a named table has returned chunks in another order than the
\* corpus order, one of them first retrieved by a later query than the
\* first, after some chunk was retrieved more than once and some retrieved
\* chunk was not kept
C10_Witness ==
    /\ FanOutReturned
    /\ call.table_name # <<>>
    /\ \E i \in DOMAIN KeptIds : call.first_seen[KeptIds[i]] > FanOutTopK
    /\ \E i, j \in DOMAIN KeptIds : i < j /\ PosOf(KeptIds[i]) > PosOf(KeptIds[j])
    /\ call.retrieved > Cardinality(DOMAIN call.first_seen)
    /\ \E id \in DOMAIN call.first_seen : id \notin call.seen_ids

(***************************************************************************)
(* Properties of the ranking.                                              *)
(***************************************************************************)
\* text.lower().split() as a set
Tokens(text) == Range(split(lower(text)))

\* the chunk's text and the query have a token in common
SharesToken(chunk, query) == Tokens(chunk.content) \cap Tokens(query) # {}

\* C11: in a search result no chunk that shares no token with the query comes
\* before a chunk that shares one, and none is returned while a chunk that
\* shares one is left out.
C11_SharingRanksFirst ==
    RetrieveReturned =>
        /\ \A p, r \in DOMAIN call.result :
              (p < r /\ SharesToken(call.result[r], call.query))
                  => SharesToken(call.result[p], call.query)
        /\ \A p \in DOMAIN call.result, i \in DOMAIN chunks :
              (/\ SharesToken(chunks[i], call.query)
               /\ \A r \in DOMAIN call.result :
                     call.result[r].chunk_id # chunks[i].chunk_id)
                  => SharesToken(call.result[p], call.query)

\* the chunk's text mentions the table, as line 78 tests it
Mentions(chunk, table_name) == Contains(upper(table_name), upper(chunk.content))

\* C12: on a corpus of at most five chunks and for a non-empty table name
\* the fan-out returns exactly the chunks whose upper-cased text contains
\* the upper-cased table name, whatever their similarity to the queries.
C12_FilterOverridesRanking ==
    (/\ FanOutFinished
     /\ Len(chunks) <= FanOutTopK
     /\ call.table_name # <<>>)
    => /\ call.status = "returned"
       /\ {KeptIds[i] : i \in DOMAIN KeptIds}
             = {chunks[i].chunk_id :
                   i \in {j \in DOMAIN chunks : Mentions(chunks[j], call.table_name)}}

\* a fan-out for a named table over at most five chunks has returned some
\* chunk and left out a chunk that does not mention the table, although one
\* of the queries gives that chunk a higher similarity than a returned one
C12_Witness ==
    /\ FanOutReturned
    /\ Len(chunks) <= FanOutTopK
    /\ call.table_name # <<>>
    /\ \E q \in DOMAIN call.queries, i \in DOMAIN chunks, k \in DOMAIN call.all_chunks :
          LET v == embed(embedder, call.queries[q])
          IN  /\ ~Mentions(chunks[i], call.table_name)
              /\ CmpSim(Sim(v, chunks[i].embedding),
                        Sim(v, call.all_chunks[k].embedding)) > 0

(***************************************************************************)
(* Properties of the corpus, its vectors and the embedder.                 *)
(***************************************************************************)
\* C13: on an empty corpus retrieve returns [] and does not raise, for every
\* query and top_k, also when the pipeline still holds the index of an
\* earlier, non-empty corpus.
C13_EmptyCorpusEmptyResult ==
    (RetrieveFinished /\ chunks = <<>>) =>
        (call.status = "returned" /\ call.result = <<>>)

\* retrieve has returned on a pipeline whose corpus was emptied by a second
\* index_documents call and whose index still holds the earlier vectors
C13_Witness ==
    /\ RetrieveReturned
    /\ chunks = <<>>
    /\ runs = 2
    /\ index # None
    /\ call.query # <<>>


\* C14: every chunk of the corpus has a vector whose dimension is the size
\* of the embedder's vocabulary, and the vectors of the index all have the
\* index's dimension; after every index_documents call, re-indexing included.
C14_OneDimension ==
    /\ \A i \in DOMAIN chunks : Len(chunks[i].embedding.num) = VocabSize
    /\ index # None =>
          \A j \in DOMAIN index[1].xb : Len(index[1].xb[j].num) = index[1].d

\* a second index_documents call has returned with two or more chunks, an
\* index built, and a vocabulary that outgrew the tokens of the corpus
C14_Witness ==
    /\ IndexReturned
    /\ runs = 2
    /\ Len(chunks) >= 2
    /\ index # None
    /\ DOMAIN embedder.vocab # CorpusTokens

(***************************************************************************)
(* C15: for every text, the empty text and texts of unknown words          *)
(* included, embed(text) returns a vector with as many components as the   *)
(* vocabulary had words when the most recent fit returned (none before the *)
(* first fit); the same holds for the vector of every chunk of the corpus. *)
(***************************************************************************)
EmbedReturned == call.op = "embed" /\ call.status = "returned"

C15_EmbedDimension ==
    /\ EmbedReturned => Len(call.result.num) = fitted_size
    /\ \A i \in DOMAIN chunks : Len(chunks[i].embedding.num) = fitted_size

C15_Witness ==
    /\ EmbedReturned
    /\ fitted_size > 0
    /\ Tokens(call.text) # {}
    /\ Tokens(call.text) \cap DOMAIN embedder.vocab = {}
    /\ Len(call.result.num) = fitted_size

(***************************************************************************)
(* C16: embedding a text again, with no fit since it was first embedded    *)
(* and whatever embed and retrieve calls were made in between, returns the *)
(* vector the first call returned.                                         *)
(***************************************************************************)
C16_EmbedIdempotent ==
    (EmbedReturned /\ call.again) => call.result = embed_log[call.text]

C16_Witness ==
    /\ EmbedReturned /\ call.again
    /\ call.result.norm2 > 0
    /\ Cardinality(DOMAIN embed_log) = Cardinality(EmbedTexts)
    /\ call.result = embed_log[call.text]

(***************************************************************************)
(* C17: retrieve and the retrieval fan-out do not fit anything: a step     *)
(* that changes the vocabulary, the IDF table, the chunk list, a chunk's   *)
(* vector, the vector index or the statistics is a step of the body of     *)
(* index_documents.                                                        *)
(***************************************************************************)
C17_OnlyIndexDocumentsWrites ==
    [][ <<chunks, embedder, index, stats>>' # <<chunks, embedder, index, stats>>
          => (call.op = "index_documents" /\ call.status = "called") ]_vars

C17_Witness ==
    /\ RetrieveReturned
    /\ call.result # <<>>
    /\ Tokens(call.query) \ DOMAIN embedder.vocab # {}
    /\ Tokens(call.query) \cap DOMAIN embedder.vocab # {}
    /\ index # None

(***************************************************************************)
(* C18: when the files given to index_documents have pairwise distinct     *)
(* paths and each file's statements have pairwise distinct statement ids,  *)
(* the chunk ids of the corpus it builds are pairwise distinct.            *)
(***************************************************************************)
DistinctPaths(parsed_files) ==
    \A i, j \in DOMAIN parsed_files :
        parsed_files[i].file_path = parsed_files[j].file_path => i = j

DistinctStatementIds(pf) ==
    \A i, j \in DOMAIN pf.sql_statements :
        pf.sql_statements[i].statement_id = pf.sql_statements[j].statement_id
            => i = j

C18_ChunkIdsUnique ==
    ( /\ IndexReturned
      /\ DistinctPaths(call.parsed_files)
      /\ \A f \in DOMAIN call.parsed_files :
             DistinctStatementIds(call.parsed_files[f]) )
    => \A i, j \in DOMAIN chunks :
           chunks[i].chunk_id = chunks[j].chunk_id => i = j

C18_Witness ==
    /\ IndexReturned
    /\ call.parsed_files = <<FileF, FileG>>
    /\ Len(chunks) = 5
    /\ \A i, j \in DOMAIN chunks :
           chunks[i].chunk_id = chunks[j].chunk_id => i = j

(***************************************************************************)
(* C19: the corpus index_documents builds holds, file after file in the    *)
(* order given, the file's metadata chunk followed by one statement chunk  *)
(* per statement of the file, in statement order; a file without           *)
(* statements contributes its metadata chunk alone, and the corpus has     *)
(* the sum over the files of 1 + number of statements chunks.              *)
(***************************************************************************)
\* the number of chunks due to the files before file f
ChunksBefore(parsed_files, f) ==
    SumRange([g \in DOMAIN parsed_files |->
                 1 + Len(parsed_files[g].sql_statements)], 1, f - 1)

IsMetadataChunkOf(chunk, pf) ==
    /\ chunk.metadata.chunk_type = "metadata"
    /\ chunk.metadata.file_path = pf.file_path
    /\ chunk.chunk_id = pf.file_path \o <<":", "m", "e", "t", "a", "d", "a", "t", "a">>

IsStatementChunkOf(chunk, pf, stmt) ==
    /\ chunk.metadata.chunk_type = "statement"
    /\ chunk.metadata.file_path = pf.file_path
    /\ chunk.chunk_id = pf.file_path \o <<":", "s", "t", "m", "t", "_">>
                            \o IntToStr(stmt.statement_id)
    /\ Contains(stmt.content, chunk.content)

C19_ChunkLayout ==
    IndexReturned =>
        LET parsed_files == call.parsed_files
        IN  /\ Len(chunks) = ChunksBefore(parsed_files, Len(parsed_files) + 1)
            /\ \A f \in DOMAIN parsed_files :
                  LET pf == parsed_files[f]
                      at == ChunksBefore(parsed_files, f)
                  IN  /\ at + 1 + Len(pf.sql_statements) <= Len(chunks)
                      /\ IsMetadataChunkOf(chunks[at + 1], pf)
                      /\ \A n \in DOMAIN pf.sql_statements :
                            IsStatementChunkOf(chunks[at + 1 + n], pf,
                                               pf.sql_statements[n])

C19_Witness ==
    /\ IndexReturned
    /\ call.parsed_files = <<FileE, FileF>>
    /\ Len(chunks) = 4
    /\ IsMetadataChunkOf(chunks[1], FileE)
    /\ IsMetadataChunkOf(chunks[2], FileF)
    /\ IsStatementChunkOf(chunks[4], FileF, FileF.sql_statements[2])

(***************************************************************************)
(* C20: embed returns a vector of zeros whenever no token of the text is   *)
(* in the vocabulary, the empty text included; and once the embedder was   *)
(* last fitted to no document at all (index_documents of an empty corpus)  *)
(* every vector embed returns has length zero.                             *)
(***************************************************************************)
IsZeroVector(vector) ==
    /\ vector.norm2 = 0
    /\ \A i \in DOMAIN vector.num : vector.num[i] = 0

\* the last fit was fit([])
FittedToNothing == runs > 0 /\ chunks = <<>>

C20_UnknownTextZeroVector ==
    (EmbedReturned /\ Tokens(call.text) \cap DOMAIN embedder.vocab = {})
        => IsZeroVector(call.result)

C20_ZeroVectors ==
    /\ C20_UnknownTextZeroVector
    /\ (EmbedReturned /\ FittedToNothing) => Len(call.result.num) = 0

(***************************************************************************)
(* C21: fit numbers the vocabulary in first-seen order.  After every fit   *)
(* the token-to-index map is one-to-one onto 0..|vocab|-1, the tokens the  *)
(* embedder already knew keep their indices, and of two tokens the fit     *)
(* added, the one seen first (earlier document, or earlier position in     *)
(* the same document) has the smaller index.                               *)
(***************************************************************************)
IsBijectionOntoInitialSegment(vocab) ==
    /\ \A w, v \in DOMAIN vocab : vocab[w] = vocab[v] => w = v
    /\ {vocab[w] : w \in DOMAIN vocab} = 0..(Cardinality(DOMAIN vocab) - 1)

\* documents[d][p] is the first occurrence of word w in the documents
IsFirstSeenAt(documents, w, d, p) ==
    /\ documents[d][p] = w
    /\ \A e \in 1..(d - 1) : w \notin Range(documents[e])
    /\ \A q \in 1..(p - 1) : documents[d][q] # w

FirstSeenOrder(old, new, texts) ==
    LET documents == Tabulated([i \in DOMAIN texts |-> split(lower(texts[i]))])
        added == DOMAIN new \ DOMAIN old
        seen == Tabulated(
            [w \in added |->
                LET d == CHOOSE e \in DOMAIN documents :
                             \E p \in DOMAIN documents[e] :
                                 IsFirstSeenAt(documents, w, e, p)
                IN  <<d, CHOOSE p \in DOMAIN documents[d] :
                             IsFirstSeenAt(documents, w, d, p)>>])
    IN  \A w, v \in added :
            (\/ seen[w][1] < seen[v][1]
             \/ seen[w][1] = seen[v][1] /\ seen[w][2] < seen[v][2])
                => new[w] < new[v]

UpperCasedNoRepeat(tables) ==
    /\ \A i \in DOMAIN tables : tables[i] = upper(tables[i])
    /\ \A i, j \in DOMAIN tables : tables[i] = tables[j] => i = j

ParseReturned == call.op = "_parse_sql_file" /\ call.status = "returned"

C22_TablesUpperCasedOnce ==
    /\ ParseReturned =>
          /\ UpperCasedNoRepeat(call.result.tables_referenced)
          /\ \A n \in DOMAIN call.result.sql_statements :
                UpperCasedNoRepeat(call.result.sql_statements[n].tables)
    /\ \A i \in DOMAIN chunks : UpperCasedNoRepeat(chunks[i].metadata.tables)

C22_Witness ==
    /\ IndexReturned
    /\ Len(chunks) = 3
    /\ Contains(<<"f", "r", "o", "m", " ", "t", "1">>, chunks[1].content)
    /\ Contains(<<"f", "r", "o", "m", " ", "T", "1">>, chunks[1].content)
    /\ chunks[1].metadata.tables = << <<"T", "1">>, <<"T", "3">> >>
    /\ chunks[3].metadata.tables = << <<"T", "1">>, <<"T", "3">> >>

(***************************************************************************)
(* C23: _prepare_context reads the first 15 chunks of the list it is given *)
(* and no chunk after them: it makes one context block for each of the     *)
(* first min(15, number of chunks) chunks, block i headed "Code Chunk i"   *)
(* and holding the path and the content of the i-th chunk.                 *)
(***************************************************************************)
PrepareReturned == call.op = "_prepare_context" /\ call.status = "returned"

BlockOf(part, i, chunk) ==
    /\ StartsWith(part, <<"\n", "-", "-", "-", " ", "C", "o", "d", "e", " ",
                          "C", "h", "u", "n", "k", " ">> \o IntToStr(i)
                        \o <<" ", "-", "-", "-", "\n", "F", "i", "l", "e", ":",
                             " ">> \o chunk.metadata.file_path \o <<"\n">>)
    /\ Contains(<<"\n", "\n">> \o chunk.content \o <<"\n">>, part)

C23_FirstFifteenChunks ==
    PrepareReturned =>
        LET parts == call.result.context_parts
            n == Min(15, Len(call.chunks))
        IN  /\ Len(parts) = n
            /\ \A i \in 1..n : BlockOf(parts[i], i, call.chunks[i])
            /\ call.result.read = 1..n

C23_Witness ==
    /\ PrepareReturned
    /\ Len(call.chunks) = 20
    /\ Len(call.result.context_parts) = 15
    /\ BlockOf(call.result.context_parts[15], 15, call.chunks[15])

(***************************************************************************)
(* C24: once the embedder is fitted to a corpus that is not empty, every   *)
(* token of the corpus has an IDF weight other than zero, whatever the     *)
(* number of documents and of documents holding the token, and so embed    *)
(* returns a vector of zeros only for a text none of whose tokens is in    *)
(* the vocabulary.                                                         *)
(***************************************************************************)
C24_ZeroOnlyIfUnknown ==
    chunks # <<>> =>
        /\ \A w \in CorpusTokens : embedder.idf[w] # 0
        /\ (EmbedReturned /\ IsZeroVector(call.result))
              => Tokens(call.text) \cap DOMAIN embedder.vocab = {}

(***************************************************************************)
(* C25: analyze_column_lineage queries the LLM only once the fan-out is    *)
(* over and has found a chunk.  While the fan-out runs, and when it found  *)
(* nothing, query_llm has not been called, and in the latter case the      *)
(* analysis returns None; an analysis that found a chunk returns after     *)
(* exactly one call of query_llm.                                          *)
(***************************************************************************)
AnalyzeReturned == call.op = "analyze_column_lineage" /\ call.status = "returned"

C25_LlmAfterFanOut ==
    /\ (call.op = "_find_relevant_code" /\ "caller" \in DOMAIN call)
          => call.llm_calls = 0
    /\ (call.op = "analyze_column_lineage" /\ call.status # "returned")
          => call.llm_calls = 0
    /\ (AnalyzeReturned /\ call.relevant_chunks = <<>>)
          => (call.returned_none /\ call.llm_calls = 0)
    /\ (AnalyzeReturned /\ call.relevant_chunks # <<>>)
          => (~call.returned_none /\ call.llm_calls = 1)

C25_Witness ==
    /\ AnalyzeReturned
    /\ Len(call.relevant_chunks) >= 2
    /\ ~call.returned_none
    /\ call.llm_calls = 1

(***************************************************************************)
(* C28: whatever text the LLM answers with, a result of                    *)
(* analyze_column_lineage other than None passes validate_lineage: it has  *)
(* the fields summary, target, lineage_chain and source_tables, and its    *)
(* lineage_chain is not empty.                                             *)
(***************************************************************************)
C28_ResultValid ==
    (AnalyzeReturned /\ ~call.returned_none) => validate_lineage(call.result)

(***************************************************************************)
(* C29: the fan-out makes five retrieve calls of at most five chunks each, *)
(* so after dedup and filtering it returns at most min(25, size of the     *)
(* corpus) chunks, each of them an element of the pipeline's corpus.       *)
(***************************************************************************)
C29_FanOutBounded ==
    /\ call.op = "_find_relevant_code" =>
          /\ call.done <= 5
          /\ call.retrieved <= 5 * call.done
          /\ Len(call.all_chunks) <= call.retrieved
    /\ FanOutReturned =>
          /\ Len(call.all_chunks) <= Min(25, Len(chunks))
          /\ \A i \in DOMAIN call.all_chunks : call.all_chunks[i] \in Range(chunks)

C29_Witness ==
    /\ FanOutReturned
    /\ Len(chunks) > 5
    /\ call.retrieved = 25
    /\ Len(call.all_chunks) >= 3

(***************************************************************************)
(* Properties of the 'Index Repository' action.                            *)
(***************************************************************************)
\* index_documents has run to completion on the object `reference` names
IndexedToCompletion(reference) ==
    /\ reference # None
    /\ reference.object \in DOMAIN pipelines
    /\ pipelines[reference.object].indexed >= 1

\* C26: in every session state, whatever 'Index Repository' actions have
\* succeeded or failed so far, repo_indexed = True implies that rag_pipeline
\* is a pipeline on which index_documents has run to completion: it is not
\* None and not a pipeline that is indexed in part.
C26_IndexedImpliesPipeline ==
    session_state.repo_indexed
        => IndexedToCompletion(session_state.rag_pipeline)

\* the repository is indexed and a later action is inside index_documents
\* on a second pipeline
C26_Witness ==
    /\ session_state.repo_indexed
    /\ script.pc = "index_documents"
    /\ call.op = "index_documents" /\ call.status = "called"
    /\ Len(pipelines) = 2
    /\ pipelines[2].indexed = 0

\* an 'Index Repository' action has ended in the exception handler
ActionFailed ==
    /\ script.pc = "idle"
    /\ "outcome" \in DOMAIN script
    /\ script.outcome = "error"

\* C27: a failing 'Index Repository' action leaves rag_pipeline,
\* repo_indexed, initialized and repo_path as they were before the action,
\* so that between the actions repo_path names the repository the current
\* rag_pipeline was built from.
C27_FailureKeepsSession ==
    /\ ActionFailed => session_state = script.frame.before.session_state
    /\ (script.pc = "idle" /\ session_state.rag_pipeline # None)
          => pipelines[session_state.rag_pipeline.object].built_from
                 = session_state.repo_path

\* clone_or_pull has taken the pull path and has returned
PullReturned == script.pc = "cloned" /\ script.pulled

\* clone_or_pull has taken the pull path and has raised
PullRaised ==
    /\ ActionFailed
    /\ script.frame.pc = "finally"

\* C30: when the local clone exists and clone_or_pull takes the pull path,
\* the working directory after the call is the one before it, both when
\* git reset and git pull succeed and when one of them fails and the call
\* raises.
C30_WorkingDirectoryKept ==
    /\ PullReturned => process.cwd = script.before.cwd
    /\ PullRaised => process.cwd = script.frame.before.cwd

\* git pull has failed inside the local clone and clone_or_pull has raised
C30_Witness ==
    /\ PullRaised
    /\ script.frame.failed = "pull"
    /\ script.frame.original_dir # script.frame.local_path

====
